---- MODULE Spec2Model ----
(***************************************************************************)
(* Model of the workflow DAG builder (engine/workflow_dag.rs) and of the   *)
(* eager directory scheduler run_dag (engine/directory_runner.rs), and of   *)
(* the workflow executor Executor::run (engine/executor.rs).               *)
(* Workflow names are the integers 1..MaxWorkflows, ordered as strings are *)
(* ordered by sort().                                                      *)
(***************************************************************************)
EXTENDS Integers, Sequences, FiniteSets, TLC

\* Bounds of the model.
MaxWorkflows == 3
MaxConcurrent == 2
MaxDeps == 2
MaxJobs == 3
MaxNeeds == 2
MaxSteps == 2
MaxHooks == 2
HookJobs == 2
MaxTime == 7
MaxWall == 2
MaxDuration == 2
MaxCalls == 3
MaxLines == 3

\* DEFAULT_STEP_DURATION of mock_clock.rs, in seconds.
DEFAULT_STEP_DURATION == 3

VARIABLES
    \* ---- WorkflowDAG::build (workflow_dag.rs) ----
    workflows,        \* the Vec<Workflow> given to build
    build_pc,         \* position inside build
    build_result,     \* Ok or the DAGError returned by build
    nodes,            \* dag.nodes: name -> [dependencies: Seq(name), always: BOOLEAN]
    execution_levels, \* dag.execution_levels
    \* ---- WorkflowDirectoryRunner configuration ----
    fail_fast,        \* self.fail_fast
    max_concurrent,   \* self.max_concurrent
    \* ---- shared state of run_dag ----
    pending,          \* Arc<RwLock<HashSet<String>>>
    results,          \* Arc<RwLock<HashMap<String, WorkflowResult>>>
    skipped,          \* Arc<RwLock<Vec<String>>>
    failed,           \* Arc<AtomicBool>
    permits,          \* free permits of the semaphore
    sent,             \* name -> number of completion signals sent on complete_tx
    completed_count,  \* messages received by the completion loop
    main_pc,          \* position of run_dag's own task
    passes,           \* dispatch-pass tasks spawned by spawn_ready_workflows
    workers,          \* worker tasks: name -> [pc, result]
    executor,         \* name -> identity of the ExecutionContext/MockClock of its Executor
    contexts,         \* context identity -> names of the workflows that wrote into it
    dir_result,       \* the DirectoryResult returned by run_dag
    \* ---- Executor::run (executor.rs) ----
    wf,               \* the Workflow given to run
    exec_pc,          \* position inside run
    hook_idx,         \* position in wf.before / wf.after
    job_order,        \* the Vec returned by topological_sort
    job_idx,          \* position of the loop over job_order
    job_results,      \* run's local `results`: job name -> JobResult
    all_success,      \* run's local `all_success`
    job_call,         \* the execute_job call in progress, or the last one
    run_result,       \* the value returned by run
    \* ---- history of the run ----
    before_status,    \* the worst of what the workflow `before` steps returned so far
    after_run,        \* number of workflow `after` steps executed
    after_status,     \* the worst of what the workflow `after` steps returned so far
    executed,         \* jobs handed to execute_job
    processed,        \* the jobs the loop dealt with, in order, and how
    \* ---- MockClock (mock_clock.rs) ----
    clock,            \* ClockState behind the executor's mock_clock
    wall,             \* the latest value Utc::now() has returned
    clock_op,         \* the last MockClock method called and what it returned
    \* ---- JSON-RPC transport of one bridge (bridge/rpc.rs) ----
    request_id,       \* REQUEST_ID: the id the next request gets
    calls,            \* send_request calls: id -> what the call returned, if it has
    request_tx,       \* the bridge's sender half of the request channel
    request_rx,       \* requests sent on the channel and not yet received
    rpc_pending,      \* the task's `pending`: ids with a live completion slot
    child_stdin,      \* ids of the requests written to the child
    written,          \* every line the child has written to its stdout
    child_stdout,     \* the lines (as indices of `written`) not yet read
    read_state,       \* how much of the first unread line read_line has consumed
    task,             \* the communication task: running or stopped
    rpc_event,        \* what the task did last
    at_stop,          \* the calls outstanding and REQUEST_ID when the task stopped
    \* ---- step dispatch (executor.rs) ----
    bridges,          \* the executor's bridges of the RPC platforms, with the sync state each child holds
    steps_out,        \* context.steps: step id -> names of the outputs stored
    step_log,         \* what the last dispatch of a step did
    \* ---- HTTP bridge (bridge/web.rs) ----
    http              \* one WebBridge and its execute_with_retry call

vars == <<workflows, build_pc, build_result, nodes, execution_levels, fail_fast, max_concurrent, pending, results, skipped, failed,
          permits, sent, completed_count, main_pc, passes, workers, executor,
          contexts, dir_result, wf, exec_pc, hook_idx, job_order, job_idx,
          job_results, all_success, job_call, run_result, before_status,
          after_run, after_status, executed, processed, clock, wall,
          clock_op, request_id, calls, request_tx, request_rx, rpc_pending,
          child_stdin, written, child_stdout, read_state, task, rpc_event,
          at_stop, bridges, steps_out, step_log, http>>

rpcVars == <<request_id, calls, request_tx, request_rx, rpc_pending,
             child_stdin, written, child_stdout, read_state, task, rpc_event,
             at_stop>>

clockVars == <<clock, wall, clock_op>>

runnerVars == <<wf, exec_pc, hook_idx, job_order, job_idx, job_results,
                all_success, job_call, run_result, before_status, after_run,
                after_status, executed, processed>>

dispatchVars == <<bridges, steps_out, step_log>>

execVars == <<runnerVars, clockVars, rpcVars, dispatchVars, http>>

dagVars == <<workflows, build_pc, build_result, nodes, execution_levels>>

Names == 1..MaxWorkflows

JobNames == 1..MaxJobs

\* No execute_job call: the frame before the first job is entered.
NoJobCall ==
    [job_name |-> 0, phase |-> "none", hook_idx |-> 1, step_idx |-> 1,
     step_results |-> <<>>, all_success |-> TRUE, before_failed |-> FALSE,
     steps_run |-> {}, stopped |-> FALSE, after_run |-> 0, ret |-> "none",
     success |-> FALSE, browser_id |-> 0, launches |-> 0, closed |-> FALSE]

\* run has not returned.
NoRunResult ==
    [kind |-> "none", success |-> FALSE, jobs |-> <<>>, error |-> "none",
     detail |-> <<>>]

\* Option::None of ClockState.virtual_time; a time is a number of seconds.
NoTime == -1

\* MockClock::new (mock_clock.rs 62-72).
MockClockNew ==
    [virtual_time |-> NoTime, frozen |-> FALSE, timezone_offset_secs |-> 0,
     step_duration |-> DEFAULT_STEP_DURATION, auto_advance |-> TRUE]

\* No MockClock method has been called.
NoClockOp == [op |-> "none", ret |-> "none", arg |-> 0]

\* The clock of a new Executor (executor.rs 77).
ClockIdle ==
    /\ clock = MockClockNew
    /\ wall = 0
    /\ clock_op = NoClockOp

\* Option::None of a platform, of a step id, of `timeout`, and of a
\* `${{ steps.ID.outputs.NAME }}` in the parameters of a step.
NoPlatform == "none"

NoId == "none"

\* A step without the parameter `timezone`.
NoTimezone == "none"

NoTimeout == -1

NoRef == [id |-> NoId, name |-> <<>>]

\* The step ids of the model.
StepIds == {"s1"}

\* The bridges sync_clock_to_bridges writes to (executor.rs 1086-1118).
RpcPlatforms == {"nodejs", "rust", "python", "java", "go"}

\* A bridge field of the executor: None, or a bridge and the last sync
\* state its child was sent.
NoSync == [received |-> FALSE, virtual_time_ms |-> NoTime, frozen |-> FALSE,
           timezone_offset_secs |-> 0]

NoBridge == [up |-> FALSE, sync |-> NoSync]

\* No function was invoked on a bridge.
NoCall == [bridge |-> NoPlatform, held |-> NoSync, current |-> NoSync]

\* The record kept of the last step that was dispatched: where it stood
\* ("step" in the main loop, "hook" in a before or after list), its `uses`
\* and `timeout`, the platform it was dispatched on (none on the direct
\* path of the platform-agnostic actions), whether it was answered with
\* PlatformMismatch or ExpressionError, the built-in action performed, the
\* time slept, the call made on a bridge, the clock and the bridges the
\* dispatch left; and of a main step, whether the dispatch returned Ok with
\* success, whether the clock it left was active, and the bridges on which
\* the sync of lines 554-558 failed.
NoStepLog ==
    [kind |-> "none", uses |-> <<>>, timeout |-> NoTimeout,
     platform |-> NoPlatform, mismatch |-> FALSE, unreadable |-> FALSE,
     performed |-> "none", slept |-> 0, call |-> NoCall,
     clock |-> MockClockNew, bridges |-> [b \in RpcPlatforms |-> NoBridge],
     succeeded |-> FALSE, was_active |-> FALSE, sync_failed |-> {},
     launched |-> FALSE, page_id |-> 0]

\* A new Executor has no bridge and an empty context (executor.rs 59-79).
DispatchIdle ==
    /\ bridges = [b \in RpcPlatforms |-> NoBridge]
    /\ steps_out = [k \in StepIds |-> {}]
    /\ step_log = NoStepLog

\* The task has done nothing yet.
NoRpcEvent == [op |-> "none", line |-> 0, id |-> 0]

\* The task has not stopped.
NotStopped == [outstanding |-> {}, request_id |-> 0]

\* The transport of a bridge that has just been spawned: REQUEST_ID is 1
\* (rpc.rs 79), the channel and `pending` are empty (rpc.rs 117).
RpcIdle ==
    /\ request_id = 1
    /\ calls = <<>>
    /\ request_tx = "open"
    /\ request_rx = <<>>
    /\ rpc_pending = {}
    /\ child_stdin = {}
    /\ written = <<>>
    /\ child_stdout = <<>>
    /\ read_state = "whole"
    /\ task = "running"
    /\ rpc_event = NoRpcEvent
    /\ at_stop = NotStopped

\* No retry configuration: WebConfig.retry is None.
NoRetry ==
    [configured |-> FALSE, max_attempts |-> 0, initial_delay |-> 0,
     max_delay |-> 0, retry_on_status |-> {}]

\* What one request.send() gave: nothing yet.
NoReply == [kind |-> "none", status |-> 0, body |-> FALSE]

\* A WebBridge built from a configuration (web.rs 45-63), with no call made.
\* `ret` is what execute_with_retry returned; `reply` is what the last
\* request.send() gave.
WebBridgeNew(retry) ==
    [retry |-> retry, pc |-> "idle", method |-> "none", attempt |-> 0,
     requests |-> 0, slept |-> 0,
     last_error |-> [kind |-> "none", status |-> 0],
     reply |-> NoReply,
     ret |-> [kind |-> "none", error |-> "none", status |-> 0]]

\* No HTTP bridge is in use.
WebIdle == http = WebBridgeNew(NoRetry)

\* The executor's variables while no workflow is being run.
ExecIdle ==
    /\ ClockIdle
    /\ RpcIdle
    /\ DispatchIdle
    /\ WebIdle
    /\ wf = [jobs |-> <<>>, before |-> <<>>, after |-> <<>>,
             platform |-> NoPlatform, platforms |-> {}]
    /\ exec_pc = "idle"
    /\ hook_idx = 1
    /\ job_order = <<>>
    /\ job_idx = 1
    /\ job_results = <<>>
    /\ all_success = TRUE
    /\ job_call = NoJobCall
    /\ run_result = NoRunResult
    /\ before_status = "ok"
    /\ after_run = 0
    /\ after_status = "ok"
    /\ executed = {}
    /\ processed = <<>>

\* ------------------------------------------------------------------------
\* Helpers
\* ------------------------------------------------------------------------
Range(s) == {s[i] : i \in DOMAIN s}

RECURSIVE SetToSortedSeq(_)
SetToSortedSeq(S) ==
    IF S = {} THEN <<>>
    ELSE LET m == CHOOSE x \in S : \A y \in S : x <= y
         IN <<m>> \o SetToSortedSeq(S \ {m})

RECURSIVE SumOver(_, _)
SumOver(f, S) ==
    IF S = {} THEN 0
    ELSE LET x == CHOOSE y \in S : TRUE
         IN f[x] + SumOver(f, S \ {x})

\* run_dag has not returned yet.
NoDirectoryResult ==
    [success |-> FALSE, workflows |-> <<>>, execution_order |-> <<>>,
     skipped |-> <<>>]

\* dag.workflow_names() / dag.len()
workflow_names == DOMAIN nodes
total_workflows == Cardinality(DOMAIN nodes)

\* ------------------------------------------------------------------------
\* WorkflowDAG::build (workflow_dag.rs 40-79)
\* ------------------------------------------------------------------------
\* The first loop (43-60): one node per workflow, DuplicateName for a name
\* that is already a key of nodes.
RECURSIVE InsertNodes(_, _)
InsertNodes(ws, acc) ==
    IF ws = <<>> THEN [error |-> "none", nodes |-> acc]
    ELSE LET workflow == Head(ws)
         IN IF workflow.name \in DOMAIN acc
            THEN [error |-> "DuplicateName", nodes |-> acc]
            ELSE InsertNodes(Tail(ws),
                     [n \in DOMAIN acc \cup {workflow.name} |->
                         IF n = workflow.name
                         THEN [dependencies |-> workflow.depends_on.workflows,
                               always |-> workflow.depends_on.always]
                         ELSE acc[n]])

\* The second loop (62-71): some dependency is not a key of nodes.
MissingDependency(ns) ==
    \E name \in DOMAIN ns : \E i \in DOMAIN ns[name].dependencies :
        ns[name].dependencies[i] \notin DOMAIN ns

\* Vec::sort (105, 122), as an insertion sort.
RECURSIVE InsertSorted(_, _)
InsertSorted(x, s) ==
    IF s = <<>> THEN <<x>>
    ELSE IF x <= Head(s) THEN <<x>> \o s
    ELSE <<Head(s)>> \o InsertSorted(x, Tail(s))

\* Mutant of Sort: the level is left in the order the maps were iterated.
Sort_unsorted(s) == s

RECURSIVE Sort(_)
Sort(s) == IF s = <<>> THEN <<>> ELSE InsertSorted(Head(s), Sort(Tail(s)))

\* in_degree after the loop at 87-96: one increment per entry of dependencies.
InDegree(ns) == [name \in DOMAIN ns |-> Len(ns[name].dependencies)]

\* dependents[dep] after the loop at 87-96; ord is the order in which the
\* HashMap nodes is iterated.
RECURSIVE Dependents(_, _, _)
Dependents(ns, ord, dep) ==
    IF ord = <<>> THEN <<>>
    ELSE LET name == Head(ord)
             k == Cardinality({i \in DOMAIN ns[name].dependencies :
                                  ns[name].dependencies[i] = dep})
         IN [i \in 1..k |-> name] \o Dependents(ns, Tail(ord), dep)

\* The names visited by the two nested loops at 111-121, in order.
RECURSIVE FlatDependents(_, _, _)
FlatDependents(ns, ord, current_level) ==
    IF current_level = <<>> THEN <<>>
    ELSE Dependents(ns, ord, Head(current_level))
         \o FlatDependents(ns, ord, Tail(current_level))

\* The body of the inner loop (114-118) over those names.
RECURSIVE Decrement(_, _, _)
Decrement(deps, in_degree, next_level) ==
    IF deps = <<>> THEN [in_degree |-> in_degree, next_level |-> next_level]
    ELSE LET dep == Head(deps)
             degree == in_degree[dep] - 1
         IN Decrement(Tail(deps), [in_degree EXCEPT ![dep] = degree],
                      IF degree = 0 THEN Append(next_level, dep) ELSE next_level)

\* while !current_level.is_empty() (107-124).
RECURSIVE LevelLoop(_, _, _, _, _)
LevelLoop(ns, ord, current_level, in_degree, levels) ==
    IF current_level = <<>> THEN levels
    ELSE LET r == Decrement(FlatDependents(ns, ord, current_level), in_degree, <<>>)
         IN LevelLoop(ns, ord, Sort(r.next_level), r.in_degree,
                      Append(levels, current_level))

RECURSIVE SumLens(_)
SumLens(levels) ==
    IF levels = <<>> THEN 0 ELSE Len(Head(levels)) + SumLens(Tail(levels))

\* Mutant of compute_execution_levels: the total_processed test is missing.
compute_execution_levels_nocheck(ns, ord) ==
    LET in_degree == InDegree(ns)
        current_level == Sort(SelectSeq(ord, LAMBDA n : in_degree[n] = 0))
    IN [error |-> "none",
        levels |-> LevelLoop(ns, ord, current_level, in_degree, <<>>)]

\* compute_execution_levels (81-132).
compute_execution_levels(ns, ord) ==
    LET in_degree == InDegree(ns)
        current_level == Sort(SelectSeq(ord, LAMBDA n : in_degree[n] = 0))
        levels == LevelLoop(ns, ord, current_level, in_degree, <<>>)
        total_processed == SumLens(levels)
    IN IF total_processed # Cardinality(DOMAIN ns)
       THEN [error |-> "CyclicDependency", levels |-> <<>>]
       ELSE [error |-> "none", levels |-> levels]

\* The iteration orders a HashMap with key set S can have.
IterationOrders(S) ==
    {f \in [1..Cardinality(S) -> S] : \A i, j \in DOMAIN f : f[i] = f[j] => i = j}

\* Mutant of check_status: a skipped dependency counts as done but not as
\* failed, so the skip does not cascade.
check_status_nocascade(name, dag, res, skipped_set) ==
    IF name \notin DOMAIN dag THEN "Skip"
    ELSE IF dag[name].dependencies = <<>> THEN "Ready"
    ELSE LET deps == Range(dag[name].dependencies)
             all_deps_done ==
                 \A dep \in deps : dep \in skipped_set \/ dep \in DOMAIN res
             any_dep_failed ==
                 \E dep \in deps : dep \in DOMAIN res /\ ~res[dep].success
         IN IF ~all_deps_done THEN "Waiting"
            ELSE IF any_dep_failed
                 THEN (IF dag[name].always THEN "Ready" ELSE "Skip")
                 ELSE "Ready"

\* Mutant of check_status: one finished dependency is enough.
check_status_anydep(name, dag, res, skipped_set) ==
    IF name \notin DOMAIN dag THEN "Skip"
    ELSE IF dag[name].dependencies = <<>> THEN "Ready"
    ELSE LET deps == Range(dag[name].dependencies)
             some_dep_done ==
                 \E dep \in deps : dep \in skipped_set \/ dep \in DOMAIN res
             any_dep_failed_or_skipped ==
                 \E dep \in deps :
                     \/ dep \in skipped_set
                     \/ (dep \in DOMAIN res /\ ~res[dep].success)
         IN IF ~some_dep_done THEN "Waiting"
            ELSE IF any_dep_failed_or_skipped
                 THEN (IF dag[name].always THEN "Ready" ELSE "Skip")
                 ELSE "Ready"

\* Mutant of check_status: a level barrier, a workflow waits until every
\* workflow of the levels before its own has finished.
check_status_barrier(name, dag, res, skipped_set) ==
    LET LevelIndex(n) == CHOOSE i \in DOMAIN execution_levels :
                             n \in Range(execution_levels[i])
        earlier == {n \in DOMAIN dag : LevelIndex(n) < LevelIndex(name)}
    IN IF \E n \in earlier : n \notin skipped_set /\ n \notin DOMAIN res
       THEN "Waiting"
       ELSE IF \E dep \in Range(dag[name].dependencies) :
                   dep \in skipped_set \/ ~res[dep].success
            THEN (IF dag[name].always THEN "Ready" ELSE "Skip")
            ELSE "Ready"

\* ------------------------------------------------------------------------
\* check_status (directory_runner.rs 254-297)
\* ------------------------------------------------------------------------
check_status(name, dag, res, skipped_set) ==
    IF name \notin DOMAIN dag THEN "Skip"
    ELSE IF dag[name].dependencies = <<>> THEN "Ready"
    ELSE LET deps == Range(dag[name].dependencies)
             all_deps_done ==
                 \A dep \in deps : dep \in skipped_set \/ dep \in DOMAIN res
             any_dep_failed_or_skipped ==
                 \E dep \in deps :
                     \/ dep \in skipped_set
                     \/ (dep \notin skipped_set /\ dep \in DOMAIN res
                         /\ ~res[dep].success)
         IN IF ~all_deps_done THEN "Waiting"
            ELSE IF any_dep_failed_or_skipped
                 THEN (IF dag[name].always THEN "Ready" ELSE "Skip")
                 ELSE "Ready"

\* Mutant of FailFastSkip: the always flag is not consulted.
FailFastSkip_ignores_always(name, dag, ff, failedFlag) == ff /\ failedFlag

\* Mutant of FailFastSkip: the negation of is_always is lost.
FailFastSkip_inverted(name, dag, ff, failedFlag) ==
    LET is_always == IF name \in DOMAIN dag THEN dag[name].always ELSE FALSE
    IN ff /\ failedFlag /\ is_always

\* The fail-fast test of the dispatch loop (directory_runner.rs 321-327).
FailFastSkip(name, dag, ff, failedFlag) ==
    LET is_always == IF name \in DOMAIN dag THEN dag[name].always ELSE FALSE
    IN ff /\ failedFlag /\ ~is_always

\* One iteration of `for name in pending_write.iter()` (320-334):
\* the list the name is pushed to.
Classify(name, dag, res, skipped_set, ff, failedFlag) ==
    IF FailFastSkip(name, dag, ff, failedFlag) THEN "Skip"
    ELSE check_status(name, dag, res, skipped_set)

\* ------------------------------------------------------------------------
\* Locks.  A dispatch pass holds results.read() from line 311 to line 335
\* and pending.write() from line 316 to line 343; lines 335-343 have no
\* suspension point and are one step (PassRemove).
\* ------------------------------------------------------------------------
ResultsReaders == {p \in DOMAIN passes : passes[p].pc \in {"lock", "loop"}}
PendingWriters == {p \in DOMAIN passes : passes[p].pc = "loop"}

IdlePass == [pc |-> "idle", skipped_set |-> {}, todo |-> {},
             to_run |-> <<>>, to_skip |-> <<>>]

\* Mutant of spawn_ready_workflows: no dispatch pass is started.
spawn_ready_workflows_lost(ps) == ps

\* spawn_ready_workflows: tokio::spawn of a new dispatch pass (310).
spawn_ready_workflows(ps) ==
    LET p == CHOOSE q \in DOMAIN ps :
                 ps[q].pc = "idle" /\ \A r \in DOMAIN ps : r < q => ps[r].pc # "idle"
    IN [ps EXCEPT ![p].pc = "start"]

\* Mutant of ExecutorNew: every Executor is handed the same context.
ExecutorNew_shared(ctxs) == 1

\* Mutant of SemaphoreAcquire: acquire never waits.
SemaphoreAcquire_nowait(free) == TRUE

\* sem.acquire().await returns only when a permit is free (361).
SemaphoreAcquire(free) == free > 0

\* Executor::new(): a fresh ExecutionContext and MockClock (executor.rs 59-79).
ExecutorNew(ctxs) == Cardinality(DOMAIN ctxs) + 1

\* ------------------------------------------------------------------------
\* Initial state: run_dag lines 231-245, for every acyclic DAG over
\* 1..MaxWorkflows (names numbered along a topological order).
\* ------------------------------------------------------------------------
DagChoices ==
    {d \in [Names -> [dependencies : SUBSET Names, always : BOOLEAN]] :
        \A n \in Names : \A dep \in d[n].dependencies : dep < n}

DagNodes(d) ==
    [n \in DOMAIN d |-> [dependencies |-> SetToSortedSeq(d[n].dependencies),
                         always |-> d[n].always]]

InitRun(d, ff, mc) ==
    /\ workflows = <<>>
    /\ build_pc = "done"
    /\ build_result = "Ok"
    /\ nodes = DagNodes(d)
    /\ execution_levels =
           compute_execution_levels(DagNodes(d), SetToSortedSeq(DOMAIN d)).levels
    /\ fail_fast = ff
    /\ max_concurrent = mc
    /\ pending = DOMAIN d
    /\ results = <<>>
    /\ skipped = <<>>
    /\ failed = FALSE
    /\ permits = mc
    /\ sent = [n \in DOMAIN d |-> 0]
    /\ completed_count = 0
    /\ main_pc = "spawn"
    /\ passes = [p \in 1..Cardinality(DOMAIN d) |-> IdlePass]
    /\ workers = [n \in DOMAIN d |-> [pc |-> "none", result |-> "none"]]
    /\ executor = [n \in DOMAIN d |-> 0]
    /\ contexts = <<>>
    /\ dir_result = NoDirectoryResult
    /\ ExecIdle

Init ==
    \E d \in DagChoices, ff \in BOOLEAN, mc \in 1..MaxConcurrent :
        InitRun(d, ff, mc)

\* ------------------------------------------------------------------------
\* run_dag's own task
\* ------------------------------------------------------------------------
\* The first spawn_ready_workflows call (385-395).
MainSpawnFirst ==
    /\ main_pc = "spawn"
    /\ passes' = spawn_ready_workflows(passes)
    /\ main_pc' = "recv"
    /\ UNCHANGED <<execVars, dagVars, fail_fast, max_concurrent, pending, results, skipped,
                   failed, permits, sent, completed_count, workers, executor,
                   contexts, dir_result>>

InFlight == SumOver(sent, DOMAIN sent) - completed_count

\* complete_rx.recv() returns Some(_) (398-405).
MainRecv ==
    /\ main_pc = "recv"
    /\ completed_count < total_workflows
    /\ InFlight > 0
    /\ completed_count' = completed_count + 1
    /\ main_pc' = IF completed_count + 1 >= total_workflows THEN "final" ELSE "check"
    /\ UNCHANGED <<execVars, dagVars, fail_fast, max_concurrent, pending, results, skipped,
                   failed, permits, sent, passes, workers, executor, contexts,
                   dir_result>>

\* has_pending = !pending.read().await.is_empty() and the spawn (407-420).
MainCheckPending ==
    /\ main_pc = "check"
    /\ PendingWriters = {}
    /\ passes' = IF pending # {} THEN spawn_ready_workflows(passes) ELSE passes
    /\ main_pc' = "recv"
    /\ UNCHANGED <<execVars, dagVars, fail_fast, max_concurrent, pending, results, skipped,
                   failed, permits, sent, completed_count, workers, executor,
                   contexts, dir_result>>

\* Mutant of DirectoryResult: success is reported whatever the results are.
DirectoryResult_optimistic(final_results, final_skipped) ==
    [success |-> TRUE,
     workflows |-> final_results,
     execution_order |-> execution_levels,
     skipped |-> final_skipped]

\* all_success and the returned DirectoryResult (426-443).
DirectoryResult(final_results, final_skipped) ==
    [success |-> \A n \in DOMAIN final_results : final_results[n].success,
     workflows |-> final_results,
     execution_order |-> execution_levels,
     skipped |-> final_skipped]

MainFinish ==
    /\ main_pc = "final"
    /\ ResultsReaders = {}
    /\ dir_result' = DirectoryResult(results, skipped)
    /\ main_pc' = "done"
    /\ UNCHANGED <<execVars, dagVars, fail_fast, max_concurrent, pending, results, skipped,
                   failed, permits, sent, completed_count, passes, workers,
                   executor, contexts>>

\* ------------------------------------------------------------------------
\* A dispatch pass: the task spawned at line 310
\* ------------------------------------------------------------------------
\* results.read() is taken and the skipped list is copied (311-314).
PassSnapshot(p) ==
    /\ passes[p].pc = "start"
    /\ passes' = [passes EXCEPT ![p].pc = "lock",
                                ![p].skipped_set = Range(skipped)]
    /\ UNCHANGED <<execVars, dagVars, fail_fast, max_concurrent, pending, results, skipped,
                   failed, permits, sent, completed_count, main_pc, workers,
                   executor, contexts, dir_result>>

\* pending.write() is acquired (316-318).
PassLockPending(p) ==
    /\ passes[p].pc = "lock"
    /\ PendingWriters = {}
    /\ passes' = [passes EXCEPT ![p].pc = "loop", ![p].todo = pending,
                                ![p].to_run = <<>>, ![p].to_skip = <<>>]
    /\ UNCHANGED <<execVars, dagVars, fail_fast, max_concurrent, pending, results, skipped,
                   failed, permits, sent, completed_count, main_pc, workers,
                   executor, contexts, dir_result>>

\* One iteration of the loop over pending (320-334); the HashSet is iterated
\* in an arbitrary order and `failed` is loaded in every iteration.
PassExamine(p, name) ==
    /\ passes[p].pc = "loop"
    /\ name \in passes[p].todo
    /\ LET st == Classify(name, nodes, results, passes[p].skipped_set,
                          fail_fast, failed)
       IN passes' = [passes EXCEPT
              ![p].todo = @ \ {name},
              ![p].to_run = IF st = "Ready" THEN Append(@, name) ELSE @,
              ![p].to_skip = IF st = "Skip" THEN Append(@, name) ELSE @]
    /\ UNCHANGED <<execVars, dagVars, fail_fast, max_concurrent, pending, results, skipped,
                   failed, permits, sent, completed_count, main_pc, workers,
                   executor, contexts, dir_result>>

\* Mutant of SpawnWorkers: a pass with something to run spawns a worker task
\* for every workflow.
SpawnWorkers_all(ws, to_run) ==
    [n \in DOMAIN ws |->
        IF to_run # <<>> THEN [ws[n] EXCEPT !.pc = "acquire"] ELSE ws[n]]

\* Mutant of SpawnWorkers: a worker task is spawned for the first name of
\* to_run only.
SpawnWorkers_first(ws, to_run) ==
    [n \in DOMAIN ws |->
        IF to_run # <<>> /\ n = Head(to_run)
        THEN [ws[n] EXCEPT !.pc = "acquire"] ELSE ws[n]]

\* The worker tasks of to_run are spawned (352-382): tokio::spawn returns at
\* once, each task then waits for a permit.
SpawnWorkers(ws, to_run) ==
    [n \in DOMAIN ws |->
        IF n \in Range(to_run) THEN [ws[n] EXCEPT !.pc = "acquire"] ELSE ws[n]]

\* After the loop: drop(results_read), the decided names leave pending and
\* the write lock is dropped (335-343); with nothing to skip the pass goes
\* straight to spawning the workers (345, 352).
PassRemove(p) ==
    /\ passes[p].pc = "loop"
    /\ passes[p].todo = {}
    /\ pending' = (pending \ Range(passes[p].to_skip)) \ Range(passes[p].to_run)
    /\ IF passes[p].to_skip = <<>>
       THEN /\ workers' = SpawnWorkers(workers, passes[p].to_run)
            /\ passes' = [passes EXCEPT ![p] = [IdlePass EXCEPT !.pc = "done"]]
       ELSE /\ workers' = workers
            /\ passes' = [passes EXCEPT ![p].pc = "skip", ![p].skipped_set = {}]
    /\ UNCHANGED <<execVars, dagVars, fail_fast, max_concurrent, results, skipped, failed,
                   permits, sent, completed_count, main_pc, executor, contexts,
                   dir_result>>

\* skipped.write().await.extend(to_skip) (345-346).
PassExtendSkipped(p) ==
    /\ passes[p].pc = "skip"
    /\ skipped' = skipped \o passes[p].to_skip
    /\ passes' = [passes EXCEPT ![p].pc = "signal"]
    /\ UNCHANGED <<execVars, dagVars, fail_fast, max_concurrent, pending, results, failed,
                   permits, sent, completed_count, main_pc, workers, executor,
                   contexts, dir_result>>

\* complete_tx.send(name) for the next skipped name (347-349); after the
\* last one the workers of to_run are spawned and the pass ends (352-382).
PassSignalSkipped(p) ==
    /\ passes[p].pc = "signal"
    /\ passes[p].to_skip # <<>>
    /\ sent' = [sent EXCEPT ![Head(passes[p].to_skip)] = @ + 1]
    /\ IF Len(passes[p].to_skip) = 1
       THEN /\ workers' = SpawnWorkers(workers, passes[p].to_run)
            /\ passes' = [passes EXCEPT ![p] = [IdlePass EXCEPT !.pc = "done"]]
       ELSE /\ workers' = workers
            /\ passes' = [passes EXCEPT ![p].to_skip = Tail(@)]
    /\ UNCHANGED <<execVars, dagVars, fail_fast, max_concurrent, pending, results, skipped,
                   failed, permits, completed_count, main_pc, executor,
                   contexts, dir_result>>

\* ------------------------------------------------------------------------
\* A worker task: the task spawned at line 360
\* ------------------------------------------------------------------------
\* sem.acquire() returns and the Executor is constructed (361-362).
WorkerStart(name) ==
    /\ workers[name].pc = "acquire"
    /\ SemaphoreAcquire(permits)
    /\ permits' = permits - 1
    /\ LET c == ExecutorNew(contexts)
       IN /\ executor' = [executor EXCEPT ![name] = c]
          /\ contexts' = IF c \in DOMAIN contexts THEN contexts
                         ELSE [i \in DOMAIN contexts \cup {c} |->
                                 IF i \in DOMAIN contexts THEN contexts[i] ELSE {}]
    /\ workers' = [workers EXCEPT ![name].pc = "run"]
    /\ UNCHANGED <<execVars, dagVars, fail_fast, max_concurrent, pending, results, skipped,
                   failed, sent, completed_count, main_pc, passes, dir_result>>

\* Mutant of WorkflowResult: an Err of executor.run is recorded as a success.
WorkflowResult_error_ok(outcome) ==
    [success |-> (outcome # "fail"), jobs_empty |-> (outcome = "error")]

\* The WorkflowResult built from what executor.run returned (365-372).
Outcomes == {"ok", "fail", "error"}
WorkflowResult(outcome) ==
    [success |-> (outcome = "ok"), jobs_empty |-> (outcome = "error")]

\* executor.run returns, having written env entries, outputs and clock state
\* into the context of its Executor; a failure sets the failed flag (363-376).
WorkerFinish(name, outcome) ==
    /\ workers[name].pc = "run"
    /\ contexts' = [contexts EXCEPT ![executor[name]] = @ \cup {name}]
    /\ workers' = [workers EXCEPT ![name].pc = "record", ![name].result = outcome]
    /\ failed' = IF ~WorkflowResult(outcome).success THEN TRUE ELSE failed
    /\ UNCHANGED <<execVars, dagVars, fail_fast, max_concurrent, pending, results, skipped,
                   permits, sent, completed_count, main_pc, passes, executor,
                   dir_result>>

\* results.write().await.insert(name, workflow_result) (378).
WorkerRecord(name) ==
    /\ workers[name].pc = "record"
    /\ ResultsReaders = {}
    /\ results' = [n \in DOMAIN results \cup {name} |->
                     IF n = name THEN WorkflowResult(workers[name].result)
                     ELSE results[n]]
    /\ workers' = [workers EXCEPT ![name].pc = "send"]
    /\ UNCHANGED <<execVars, dagVars, fail_fast, max_concurrent, pending, skipped, failed,
                   permits, sent, completed_count, main_pc, passes, executor,
                   contexts, dir_result>>

\* tx.send(name); the task ends and drops its permit (379-380).
WorkerSignal(name) ==
    /\ workers[name].pc = "send"
    /\ sent' = [sent EXCEPT ![name] = @ + 1]
    /\ permits' = permits + 1
    /\ workers' = [workers EXCEPT ![name].pc = "done"]
    /\ UNCHANGED <<execVars, dagVars, fail_fast, max_concurrent, pending, results, skipped,
                   failed, completed_count, main_pc, passes, executor, contexts,
                   dir_result>>

Next ==
    \/ MainSpawnFirst
    \/ MainRecv
    \/ MainCheckPending
    \/ MainFinish
    \/ \E p \in DOMAIN passes : PassSnapshot(p)
    \/ \E p \in DOMAIN passes : PassLockPending(p)
    \/ \E p \in DOMAIN passes : \E name \in workflow_names : PassExamine(p, name)
    \/ \E p \in DOMAIN passes : PassRemove(p)
    \/ \E p \in DOMAIN passes : PassExtendSkipped(p)
    \/ \E p \in DOMAIN passes : PassSignalSkipped(p)
    \/ \E name \in workflow_names : WorkerStart(name)
    \/ \E name \in workflow_names : \E outcome \in Outcomes : WorkerFinish(name, outcome)
    \/ \E name \in workflow_names : WorkerRecord(name)
    \/ \E name \in workflow_names : WorkerSignal(name)

Spec == Init /\ [][Next]_vars

\* ------------------------------------------------------------------------
\* The DAG of test_eager_scheduling without its cleanup workflow: setup (1)
\* -> {api-tests (2), e2e-tests (3)}, notify (4) depending on api-tests only.
\* ------------------------------------------------------------------------
EagerDag ==
    1 :> [dependencies |-> {}, always |-> FALSE]
    @@ 2 :> [dependencies |-> {1}, always |-> FALSE]
    @@ 3 :> [dependencies |-> {1}, always |-> FALSE]
    @@ 4 :> [dependencies |-> {2}, always |-> FALSE]

EagerInit ==
    \E ff \in BOOLEAN, mc \in 1..MaxConcurrent : InitRun(EagerDag, ff, mc)

EagerSpec == EagerInit /\ [][Next]_vars

\* The DAGs in which the last workflow has always=true and dependencies.
FairInit ==
    \E d \in DagChoices, ff \in BOOLEAN, mc \in 1..MaxConcurrent :
        /\ d[MaxWorkflows].always
        /\ d[MaxWorkflows].dependencies # {}
        /\ InitRun(d, ff, mc)

\* The runtime keeps running every task that can take a step, and every
\* Executor run terminates.
FairSpec == FairInit /\ [][Next]_vars /\ WF_vars(Next)

\* ------------------------------------------------------------------------
\* WorkflowDAG::build as a run of its three phases
\* ------------------------------------------------------------------------
runVars == <<fail_fast, max_concurrent, pending, results, skipped, failed,
             permits, sent, completed_count, main_pc, passes, workers,
             executor, contexts, dir_result>>

DepLists == UNION {[1..k -> Names] : k \in 0..MaxDeps}

WorkflowInputs ==
    [name : Names, depends_on : [workflows : DepLists, always : {FALSE}]]

BuildInit ==
    /\ workflows \in UNION {[1..k -> WorkflowInputs] : k \in 0..MaxWorkflows}
    /\ build_pc = "insert"
    /\ build_result = "none"
    /\ nodes = <<>>
    /\ execution_levels = <<>>
    /\ fail_fast = FALSE
    /\ max_concurrent = 0
    /\ pending = {}
    /\ results = <<>>
    /\ skipped = <<>>
    /\ failed = FALSE
    /\ permits = 0
    /\ sent = <<>>
    /\ completed_count = 0
    /\ main_pc = "idle"
    /\ passes = <<>>
    /\ workers = <<>>
    /\ executor = <<>>
    /\ contexts = <<>>
    /\ dir_result = NoDirectoryResult
    /\ ExecIdle

\* Lines 41-60.
BuildInsert ==
    /\ build_pc = "insert"
    /\ LET r == InsertNodes(workflows, <<>>)
       IN IF r.error # "none"
          THEN /\ build_result' = r.error
               /\ build_pc' = "done"
               /\ nodes' = <<>>
          ELSE /\ build_result' = build_result
               /\ build_pc' = "validate"
               /\ nodes' = r.nodes
    /\ UNCHANGED <<workflows, execution_levels, runVars, execVars>>

\* Lines 62-71.
BuildValidate ==
    /\ build_pc = "validate"
    /\ IF MissingDependency(nodes)
       THEN /\ build_result' = "MissingDependency"
            /\ build_pc' = "done"
            /\ nodes' = <<>>
       ELSE /\ build_result' = build_result
            /\ build_pc' = "levels"
            /\ nodes' = nodes
    /\ UNCHANGED <<workflows, execution_levels, runVars, execVars>>

\* Lines 73-78.
BuildLevels ==
    /\ build_pc = "levels"
    /\ \E ord \in IterationOrders(DOMAIN nodes) :
          LET r == compute_execution_levels(nodes, ord)
          IN IF r.error # "none"
             THEN /\ build_result' = r.error
                  /\ nodes' = <<>>
                  /\ execution_levels' = <<>>
             ELSE /\ build_result' = "Ok"
                  /\ nodes' = nodes
                  /\ execution_levels' = r.levels
    /\ build_pc' = "done"
    /\ UNCHANGED <<workflows, runVars, execVars>>

BuildNext ==
    \/ BuildInsert
    \/ BuildValidate
    \/ BuildLevels

BuildSpec == BuildInit /\ [][BuildNext]_vars

\* ========================================================================
\* Properties of WorkflowDAG::build (checked under BuildSpec)
\* ========================================================================
InputNames == {workflows[i].name : i \in DOMAIN workflows}
InputDeps(n) ==
    UNION {Range(workflows[i].depends_on.workflows) :
               i \in {j \in DOMAIN workflows : workflows[j].name = n}}

HasDuplicateName ==
    \E i, j \in DOMAIN workflows : i # j /\ workflows[i].name = workflows[j].name
HasDanglingDependency == \E n \in InputNames : ~(InputDeps(n) \subseteq InputNames)
\* A cycle: a non-empty set of workflows each of which depends on a member.
HasCycle ==
    \E S \in SUBSET InputNames : S # {} /\ \A n \in S : InputDeps(n) \cap S # {}

ExpectedBuildResult ==
    IF HasDuplicateName THEN "DuplicateName"
    ELSE IF HasDanglingDependency THEN "MissingDependency"
    ELSE IF HasCycle THEN "CyclicDependency"
    ELSE "Ok"

\* C9: build fails with DuplicateName when two input workflows share a name,
\* otherwise with MissingDependency when a depends_on name is no input
\* workflow, otherwise with CyclicDependency exactly when the dependency
\* graph has a cycle (self-dependency included), and succeeds otherwise.
C9_BuildErrors == build_pc = "done" => build_result = ExpectedBuildResult

C9_Witness ==
    /\ build_pc = "done"
    /\ build_result = "CyclicDependency"
    /\ Len(workflows) = MaxWorkflows
    /\ \E n \in InputNames : n \notin InputDeps(n)
    /\ \E n \in InputNames : InputDeps(n) = {}

\* The level of a workflow of an acyclic graph: 0 without dependencies,
\* otherwise one above the highest level of its dependencies.
RECURSIVE LevelOf(_)
LevelOf(n) ==
    IF InputDeps(n) = {} THEN 0
    ELSE LET ls == {LevelOf(d) : d \in InputDeps(n)}
         IN 1 + (CHOOSE m \in ls : \A k \in ls : k <= m)

ExpectedLevels ==
    IF InputNames = {} THEN <<>>
    ELSE LET ls == {LevelOf(n) : n \in InputNames}
             top == CHOOSE m \in ls : \A k \in ls : k <= m
         IN [i \in 1..(top + 1) |->
                SetToSortedSeq({n \in InputNames : LevelOf(n) = i - 1})]

\* C10: for an acyclic input with unique names and resolved dependencies the
\* returned levels partition the names, level 0 is the workflows without
\* dependencies, every other workflow is one level above its highest
\* dependency, each level is sorted by name, and the result is the same for
\* every order of the input list and every iteration order of the maps.
C10_LevelDecomposition ==
    (build_pc = "done" /\ build_result = "Ok") => execution_levels = ExpectedLevels

C10_Witness ==
    /\ build_pc = "done"
    /\ build_result = "Ok"
    /\ Len(execution_levels) = 2
    /\ Len(execution_levels[2]) = 2
    /\ workflows[1].name > workflows[2].name

\* ========================================================================
\* Properties of run_dag (checked under Spec, EagerSpec, FairSpec)
\* ========================================================================
DepsOf(w) == Range(nodes[w].dependencies)
Running == {w \in workflow_names : workers[w].pc = "run"}
PermitHolders == {w \in workflow_names : workers[w].pc \in {"run", "record", "send"}}
Finished(w) == workers[w].pc \in {"record", "send", "done"}
FailureFinished ==
    \E x \in workflow_names :
        Finished(x) /\ ~WorkflowResult(workers[x].result).success
\* A dispatch pass in progress has pushed w to its to_run / to_skip list.
\* While no pass holds pending.write() this is false of every name of pending.
ClassifiedRun(w) == \E p \in DOMAIN passes : w \in Range(passes[p].to_run)
ClassifiedSkip(w) == \E p \in DOMAIN passes : w \in Range(passes[p].to_skip)
\* w is still in pending and no dispatch pass has decided it.
Undecided(w) == w \in pending /\ ~ClassifiedRun(w) /\ ~ClassifiedSkip(w)

\* The workflows reached from S along dependency edges through workflows
\* that do not have always=true.
RECURSIVE Cascade(_, _)
Cascade(S, T) ==
    LET new == {y \in workflow_names \ T :
                   ~nodes[y].always /\ DepsOf(y) \cap (S \cup T) # {}}
    IN IF new = {} THEN T ELSE Cascade(S, T \cup new)

\* C1: when run_dag has finished, every workflow that depends on a failed
\* workflow, directly or through a path without always=true, is in skipped
\* and has no entry in the result map.
C1_SkipCascade ==
    main_pc = "done" =>
        \A X \in DOMAIN dir_result.workflows :
            ~dir_result.workflows[X].success =>
                \A Y \in Cascade({X}, {}) :
                    /\ Y \in Range(dir_result.skipped)
                    /\ Y \notin DOMAIN dir_result.workflows

C1_Witness ==
    /\ main_pc = "done"
    /\ ~fail_fast
    /\ \E X \in DOMAIN dir_result.workflows :
          /\ ~dir_result.workflows[X].success
          /\ \E Y \in Cascade({X}, {}) :
                X \notin DepsOf(Y) /\ Y \in Range(dir_result.skipped)

AllDepsFinished(w) ==
    \A d \in DepsOf(w) : d \in DOMAIN results \/ d \in Range(skipped)

\* C2: a workflow with always=true whose dependencies all have a result or
\* are skipped is eventually executed by an Executor and gets a result, and
\* it is never skipped, fail_fast and an earlier failure notwithstanding.
C2_AlwaysRuns ==
    /\ [](\A Y \in workflow_names :
             nodes[Y].always =>
                 /\ Y \notin Range(skipped) /\ ~ClassifiedSkip(Y)
                 /\ main_pc = "done" => (executor[Y] # 0 /\ Y \in DOMAIN results))
    /\ <>(main_pc = "done")

C2_Witness ==
    /\ fail_fast
    /\ \E Y \in workflow_names :
          /\ nodes[Y].always
          /\ Y \in DOMAIN results
          /\ executor[Y] # 0
          /\ \E d \in DepsOf(Y) : d \in DOMAIN results /\ ~results[d].success
          /\ \E d \in DepsOf(Y) : d \in Range(skipped)

C3_Step ==
    \A w \in workflow_names :
        (fail_fast /\ FailureFinished /\ ~nodes[w].always /\ Undecided(w))
            => (Undecided(w)' \/ ClassifiedSkip(w)')

C3_State ==
    /\ \A w \in workflow_names :
          (ClassifiedSkip(w) \/ w \in Range(skipped)) =>
              /\ workers[w].pc = "none"
              /\ w \notin DOMAIN results
              /\ ~ClassifiedRun(w)
              /\ ~nodes[w].always
    /\ main_pc = "done" =>
          \A w \in workflow_names : w \in Range(skipped) \/ w \in DOMAIN results

C4_DepsBeforeRun ==
    \A w \in workflow_names :
        /\ (ClassifiedRun(w) \/ workers[w].pc # "none") => AllDepsFinished(w)
        /\ workers[w].pc = "run" =>
              \A d \in DepsOf(w) :
                  d \notin pending /\ workers[d].pc \notin {"acquire", "run", "record"}

C4_Witness ==
    \E w \in workflow_names :
        /\ workers[w].pc = "run"
        /\ nodes[w].always
        /\ \E d \in DepsOf(w) : d \in Range(skipped)
        /\ \E d \in DepsOf(w) : d \in DOMAIN results

\* C5: at most max_concurrent workflows execute Executor::run at any moment
\* (each holds one of the max_concurrent permits until its task ends); a
\* workflow dispatched while max_concurrent others hold a permit waits.
C5_MaxConcurrent ==
    /\ Cardinality(Running) <= max_concurrent
    /\ permits + Cardinality(PermitHolders) = max_concurrent
    /\ permits >= 0

C5_Witness ==
    /\ Cardinality(Running) = max_concurrent
    /\ \E w \in workflow_names : workers[w].pc = "acquire"

\* C6: the success of the returned DirectoryResult equals (every recorded
\* WorkflowResult has success=true) and (skipped is empty).
C6_DirectorySuccess ==
    main_pc = "done" =>
        (dir_result.success <=>
            ((\A n \in DOMAIN dir_result.workflows : dir_result.workflows[n].success)
             /\ dir_result.skipped = <<>>))

C6_Witness ==
    /\ main_pc = "done"
    /\ ~dir_result.success
    /\ dir_result.skipped # <<>>
    /\ Cardinality({n \in DOMAIN dir_result.workflows :
                       dir_result.workflows[n].success}) >= 1

\* What pass p knows when it examines w: every dependency is finished.
DepsSeen(p, w) ==
    \A d \in DepsOf(w) : d \in DOMAIN results \/ d \in passes[p].skipped_set

\* A pass that examines a workflow whose dependencies it sees finished
\* decides it (to_run or to_skip) and does not leave it waiting.
C7_Step ==
    \A p \in DOMAIN passes : \A w \in workflow_names :
        (passes[p].pc = "loop" /\ w \in passes[p].todo
         /\ w \notin passes'[p].todo /\ DepsSeen(p, w))
            => (w \in Range(passes'[p].to_run) \/ w \in Range(passes'[p].to_skip))

\* Once every completion signal of w's dependencies has been received and
\* answered by the completion loop, a dispatch pass that sees them all
\* finished is under way for w.
C7_State ==
    \A w \in workflow_names :
        (Undecided(w) /\ main_pc = "recv" /\ InFlight = 0
         /\ \A d \in DepsOf(w) : sent[d] = 1)
            => \E p \in DOMAIN passes :
                  \/ passes[p].pc = "start"
                  \/ passes[p].pc = "lock" /\ DepsSeen(p, w)
                  \/ passes[p].pc = "loop" /\ w \in passes[p].todo /\ DepsSeen(p, w)

\* C7: a workflow whose own dependencies have completed is dispatched by the
\* dispatch pass that follows the completion of its last dependency, without
\* waiting for workflows of the same or an earlier level.
C7_EagerScheduling == [][C7_Step]_vars /\ []C7_State

\* notify (4) runs while e2e-tests (3) is still running.
C7_Witness ==
    /\ workers[4].pc = "run"
    /\ workers[3].pc = "run"

\* C8: every dispatched workflow has its own Executor and context: what one
\* workflow's run writes is never found in the context of another's.
C8_ContextIsolation ==
    \A w \in workflow_names :
        executor[w] # 0 =>
            /\ contexts[executor[w]] \subseteq {w}
            /\ \A v \in workflow_names \ {w} : executor[v] # executor[w]

C8_Witness ==
    \E w, v \in workflow_names :
        /\ w # v
        /\ workers[w].pc = "run"
        /\ executor[v] # 0
        /\ contexts[executor[v]] = {v}
        /\ contexts[executor[w]] = {}

\* ------------------------------------------------------------------------
\* Executor::topological_sort (executor.rs 1124-1176)
\* ------------------------------------------------------------------------
\* The state of the sort: the locals visited, temp_visited, result, the path
\* of the top-level visit in progress, and the error returned, if any.
SortStart ==
    [visited |-> {}, temp_visited |-> {}, result |-> <<>>, path |-> <<>>,
     error |-> "none", detail |-> <<>>]

RECURSIVE visit(_, _, _)

\* Mutant of visit_needs: a `needs` entry that names no job is passed over.
RECURSIVE visit_needs_lenient(_, _, _, _)
visit_needs_lenient(needs, i, jobs, st) ==
    IF i > Len(needs) THEN st
    ELSE IF needs[i] \notin DOMAIN jobs
    THEN visit_needs_lenient(needs, i + 1, jobs, st)
    ELSE LET s == visit(needs[i], jobs, st)
         IN IF s.error # "none" THEN s
            ELSE visit_needs_lenient(needs, i + 1, jobs, s)

\* visit (1129-1162) and its loop over job.needs (1148-1153).
RECURSIVE visit_needs(_, _, _, _)
visit_needs(needs, i, jobs, st) ==
    IF i > Len(needs) THEN st
    ELSE IF needs[i] \notin DOMAIN jobs
    THEN [st EXCEPT !.error = "JobNotFound", !.detail = <<needs[i]>>]
    ELSE LET s == visit(needs[i], jobs, st)
         IN IF s.error # "none" THEN s
            ELSE visit_needs(needs, i + 1, jobs, s)

visit(name, jobs, st) ==
    IF name \in st.temp_visited
    THEN [st EXCEPT !.error = "CircularDependency", !.detail = st.path]
    ELSE IF name \in st.visited THEN st
    ELSE LET entered == [st EXCEPT !.temp_visited = @ \cup {name},
                                   !.path = Append(@, name)]
             s == IF name \in DOMAIN jobs
                  THEN visit_needs(jobs[name].needs, 1, jobs, entered)
                  ELSE entered
         IN IF s.error # "none" THEN s
            ELSE [s EXCEPT !.path = SubSeq(@, 1, Len(@) - 1),
                           !.temp_visited = @ \ {name},
                           !.visited = @ \cup {name},
                           !.result = Append(@, name)]

\* The loop over jobs.keys() (1164-1173); every top-level visit starts with
\* an empty path.
RECURSIVE visit_keys(_, _, _, _)
visit_keys(keys, i, jobs, st) ==
    IF i > Len(keys) THEN st
    ELSE LET s == visit(keys[i], jobs, [st EXCEPT !.path = <<>>])
         IN IF s.error # "none" THEN s
            ELSE visit_keys(keys, i + 1, jobs, s)

\* Mutant of topological_sort: the jobs in the iteration order of the map.
topological_sort_keys(jobs, keys) ==
    [SortStart EXCEPT !.result = keys]

topological_sort(jobs, keys) ==
    visit_keys(keys, 1, jobs, SortStart)

\* ------------------------------------------------------------------------
\* The methods of MockClock (engine/mock_clock.rs)
\* ------------------------------------------------------------------------
\* The times and durations of the model, in seconds.
Times == 0..MaxTime

Durations == 0..MaxDuration

\* What Utc::now() can return: the wall clock does not run backwards.
UtcNows == wall..MaxWall

\* is_virtual / is_active (81-88).
is_active(c) == c.virtual_time # NoTime

\* now (75-78), given what Utc::now() returns.
now(c, utc_now) == IF c.virtual_time # NoTime THEN c.virtual_time ELSE utc_now

\* set (91-95).
set(c, time) == [c EXCEPT !.virtual_time = time, !.frozen = TRUE]

\* forward (98-103).
forward(c, duration, utc_now) ==
    [c EXCEPT !.virtual_time = now(c, utc_now) + duration, !.frozen = TRUE]

\* Mutant of forward_until: the target is taken whatever the current time.
forward_until_unchecked(c, target, utc_now) ==
    [clock |-> [c EXCEPT !.virtual_time = target, !.frozen = TRUE],
     ret |-> "Ok"]

\* forward_until (107-118): the state it leaves and the Result it returns.
forward_until(c, target, utc_now) ==
    IF target < now(c, utc_now)
    THEN [clock |-> c, ret |-> "CannotGoBackwards"]
    ELSE [clock |-> [c EXCEPT !.virtual_time = target, !.frozen = TRUE],
          ret |-> "Ok"]

\* reset (121-125).
reset(c) == [c EXCEPT !.virtual_time = NoTime, !.frozen = FALSE]

\* auto_advance_step (140-154).
auto_advance_step(c, utc_now) ==
    IF ~c.auto_advance
    THEN c
    ELSE [c EXCEPT !.virtual_time = now(c, utc_now) + c.step_duration]

\* set_timezone (157-160).
set_timezone(c, offset_hours) ==
    [c EXCEPT !.timezone_offset_secs = offset_hours * 3600]

\* The timezone strings of the model.
TimezoneNames == {"UTC", "+05:30", "+01:00", "PST", "EST", "Mars"}

\* parse_timezone (330-404) on the strings of the model.
parse_timezone(s) ==
    CASE s = "UTC" -> [ok |-> TRUE, offset_secs |-> 0]
      [] s = "+05:30" -> [ok |-> TRUE, offset_secs |-> 1 * (5 * 3600 + 30 * 60)]
      [] s = "+01:00" -> [ok |-> TRUE, offset_secs |-> 1 * (1 * 3600 + 0 * 60)]
      [] s = "PST" -> [ok |-> TRUE, offset_secs |-> (-8) * 3600]
      [] s = "EST" -> [ok |-> TRUE, offset_secs |-> (-5) * 3600]
      [] OTHER -> [ok |-> FALSE, offset_secs |-> 0]

\* set_timezone_name (164-169).
set_timezone_name(c, name) ==
    LET parsed == parse_timezone(name)
    IN IF parsed.ok
       THEN [clock |-> [c EXCEPT !.timezone_offset_secs = parsed.offset_secs],
             ret |-> "Ok"]
       ELSE [clock |-> c, ret |-> "InvalidTimezone"]

\* get_sync_state (128-136): the time in milliseconds, or none.
get_sync_state(c) ==
    [virtual_time_ms |-> IF c.virtual_time = NoTime THEN NoTime
                         ELSE c.virtual_time * 1000,
     frozen |-> c.frozen,
     timezone_offset_secs |-> c.timezone_offset_secs]

\* ------------------------------------------------------------------------
\* Step dispatch (workflow/action.rs, workflow/expressions.rs, executor.rs)
\* ------------------------------------------------------------------------
\* ActionCategory (action.rs 9-47), by the first part of `uses`.
Categories ==
    {"page", "element", "assert", "wait", "browser", "network", "node", "ctx",
     "mock", "hook", "rs", "py", "java", "go", "web", "fail", "clock", "bash"}

\* requires_playwright .. requires_web (action.rs 50-93): whether the
\* category requires the platform.
requires(platform, category) ==
    CASE platform = "playwright" ->
             category \in {"page", "element", "browser", "network"}
      [] platform = "nodejs" -> category \in {"node", "ctx", "mock", "hook"}
      [] platform = "rust" -> category = "rs"
      [] platform = "python" -> category = "py"
      [] platform = "java" -> category = "java"
      [] platform = "go" -> category = "go"
      [] OTHER -> category = "web"

\* is_platform_agnostic (action.rs 95-104).
is_platform_agnostic(category) ==
    category \in {"assert", "wait", "fail", "clock", "bash"}

\* infer_platform (action.rs 107-125).
infer_platform(category) ==
    CASE requires("playwright", category) -> "playwright"
      [] requires("nodejs", category) -> "nodejs"
      [] requires("rust", category) -> "rust"
      [] requires("python", category) -> "python"
      [] requires("java", category) -> "java"
      [] requires("go", category) -> "go"
      [] requires("web", category) -> "web"
      [] OTHER -> NoPlatform

\* ParsedAction::parse (action.rs 137-182) of a `uses` given as its parts
\* between the '/'.
parse(uses) ==
    IF Len(uses) # 2 \/ uses[1] \notin Categories
    THEN [ok |-> FALSE, category |-> "none", action |-> "none"]
    ELSE [ok |-> TRUE, category |-> uses[1], action |-> uses[2]]

\* is_compatible_with (action.rs 185-209).
is_compatible_with(category, platform) ==
    \/ is_platform_agnostic(category)
    \/ requires(platform, category)

\* The categories matched by execute_playwright_action (742-773),
\* execute_nodejs_action (792-815), execute_rust_action, execute_python_action,
\* execute_java_action, execute_go_action (827-919) and execute_web_action
\* (930-944); every other category is answered with PlatformMismatch.
Supported(platform) ==
    CASE platform = "playwright" ->
             {"page", "element", "assert", "wait", "browser", "network"}
      [] platform = "nodejs" -> {"node", "ctx", "mock", "hook", "assert", "wait"}
      [] platform = "rust" -> {"rs", "assert", "wait"}
      [] platform = "python" -> {"py", "assert", "wait"}
      [] platform = "java" -> {"java", "assert", "wait"}
      [] platform = "go" -> {"go", "assert", "wait"}
      [] OTHER -> {"web", "assert", "wait"}

\* The sync state a child holds after clock.sync with the state of clock c.
Synced(c) ==
    [received |-> TRUE,
     virtual_time_ms |-> get_sync_state(c).virtual_time_ms,
     frozen |-> get_sync_state(c).frozen,
     timezone_offset_secs |-> get_sync_state(c).timezone_offset_secs]

\* sync_clock_to_bridges (1082-1121); clock.sync fails on the bridges of
\* `failing`, which is only logged.
sync_clock_to_bridges(c, bs, failing) ==
    [b \in RpcPlatforms |->
        IF bs[b].up /\ b \notin failing
        THEN [bs[b] EXCEPT !.sync = Synced(c)]
        ELSE bs[b]]

\* What a dispatch returned and did: Ok(StepResult) with success true
\* ("ok") or false ("unsuccessful"), or Err ("error") with the variant of
\* ExecutorError; the clock and the bridges it leaves; the names of the
\* outputs of the StepResult; the function call it made on a bridge; the
\* built-in action it performed and the time it slept.
Done(c, bs) ==
    [ret |-> "ok", error |-> "none", clock |-> c, bridges |-> bs,
     outputs |-> {}, call |-> NoCall, performed |-> "none", slept |-> 0]

Failure(error, c, bs) ==
    [Done(c, bs) EXCEPT !.ret = "error", !.error = error]

\* execute_clock_action (985-1079); params.value is the parameter `time` or
\* `duration`, params.timezone the parameter `timezone` (NoTimezone when
\* absent). The value parse_timezone returns is handed to set_timezone as it
\* is (1004, 1019). The name of an output is given as its parts between the
\* '.'.
execute_clock_action(action, params, c, bs) ==
    {LET zone == parse_timezone(params.timezone)
         moved ==
             CASE action = "set" ->
                      IF params.timezone = NoTimezone
                      THEN [clock |-> set(c, params.value), ret |-> "Ok"]
                      ELSE IF zone.ok
                           THEN [clock |-> set_timezone(set(c, params.value),
                                                        zone.offset_secs),
                                 ret |-> "Ok"]
                           ELSE [clock |-> set(c, params.value),
                                 ret |-> "InvalidTimezone"]
               [] action = "timezone" ->
                      IF params.timezone # NoTimezone /\ zone.ok
                      THEN [clock |-> set_timezone(c, zone.offset_secs),
                            ret |-> "Ok"]
                      ELSE [clock |-> c, ret |-> "InvalidTimezone"]
               [] action = "forward" ->
                      [clock |-> forward(c, params.value, utc_now), ret |-> "Ok"]
               [] action = "forward-until" ->
                      forward_until(c, params.value, utc_now)
               [] action = "reset" -> [clock |-> reset(c), ret |-> "Ok"]
               [] OTHER -> [clock |-> c, ret |-> "UnknownAction"]
     IN CASE moved.ret = "Ok" ->
                 [Done(moved.clock,
                       sync_clock_to_bridges(moved.clock, bs, failing))
                     EXCEPT !.outputs = IF is_active(moved.clock)
                                       THEN {<<"time">>, <<"time_ms">>}
                                       ELSE {},
                            !.performed = "clock"]
          [] moved.ret = "UnknownAction" -> Failure("UnknownAction", c, bs)
          [] OTHER -> Failure("ConfigError", moved.clock, bs)
     : utc_now \in UtcNows, failing \in SUBSET {b \in RpcPlatforms : bs[b].up}}

\* execute_wait (nodejs.rs 9-34): sleeps for the parameter `ms`.
execute_wait(action, param, c, bs) ==
    IF action \in {"timeout", "delay", "ms"}
    THEN {[Done(c, bs) EXCEPT !.performed = "wait", !.slept = param]}
    ELSE {Failure("UnknownAction", c, bs)}

\* execute_bash_action (bash.rs): the command exits with 0 or not.
execute_bash_action(c, bs) ==
    {[Done(c, bs) EXCEPT !.outputs = {<<"stdout">>, <<"stderr">>, <<"exit_code">>},
                         !.performed = "bash"],
     [Failure("StepFailed", c, bs) EXCEPT !.performed = "bash"]}

\* execute_platform_agnostic_action (948-982).
execute_platform_agnostic_action(parsed, step, c, bs) ==
    CASE parsed.category = "wait" -> execute_wait(parsed.action, step.param, c, bs)
      [] parsed.category = "assert" -> {Failure("ConfigError", c, bs)}
      [] parsed.category = "fail" ->
             {[Failure("StepFailed", c, bs) EXCEPT !.performed = "fail"]}
      [] parsed.category = "clock" ->
             execute_clock_action(parsed.action,
                                  [value |-> step.param,
                                   timezone |-> step.timezone], c, bs)
      [] parsed.category = "bash" -> execute_bash_action(c, bs)
      [] OTHER -> {Failure("PlatformMismatch", c, bs)}

\* A request on the web bridge (web.rs 8-66): a 2xx response, another
\* response, or an error of the bridge. The body of a response is a JSON
\* object with the key `id`, which gives the output `body.id` (45-54).
execute_web_request(c, bs) ==
    LET outputs == {<<"status">>, <<"body">>, <<"elapsed_ms">>, <<"body", "id">>}
    IN {[Done(c, bs) EXCEPT !.outputs = outputs],
        [Done(c, bs) EXCEPT !.ret = "unsuccessful", !.outputs = outputs],
        Failure("BridgeError", c, bs)}

\* A function call on the bridge of an RPC platform (nodejs.rs 36-64): the
\* child answers with a result or an error. The function runs with the
\* sync state the child holds at that moment.
execute_call(platform, c, bs) ==
    LET call == [bridge |-> platform, held |-> bs[platform].sync,
                 current |-> Synced(c)]
    IN {[Done(c, bs) EXCEPT !.outputs = {<<"result">>}, !.call = call],
        [Failure("BridgeError", c, bs) EXCEPT !.call = call]}

\* An action of the browser, an assertion: it succeeds or fails.
execute_other(error, c, bs) == {Done(c, bs), Failure(error, c, bs)}

\* evaluate_single (expressions.rs 48-130) of `steps.ID.outputs.NAME`,
\* split at the '.': Ok, or the variant of ExpressionError.
evaluate_single(parts, ctx) ==
    CASE Len(parts) # 4 \/ parts[3] # "outputs" -> "InvalidSyntax"
      [] parts[2] \notin DOMAIN ctx -> "UnknownVariable"
      [] <<parts[4]>> \notin ctx[parts[2]] -> "UnknownVariable"
      [] OTHER -> "Ok"

\* evaluate_params (expressions.rs 190-208) of the parameters of a step.
evaluate_params(step, ctx) ==
    IF step.reads = NoRef
    THEN "Ok"
    ELSE evaluate_single(<<"steps", step.reads.id, "outputs">> \o step.reads.name,
                         ctx)

\* execute_step (624-663) and the execute_*_action it calls (731-945).
\* page_id tells whether a page was given (Some).
execute_step(step, platform, page_id, c, bs, ctx) ==
    LET parsed == parse(step.uses)
    IN CASE ~parsed.ok -> {Failure("UnknownAction", c, bs)}
         [] ~is_compatible_with(parsed.category, platform) ->
                {Failure("PlatformMismatch", c, bs)}
         [] evaluate_params(step, ctx) # "Ok" ->
                {Failure("ExpressionError", c, bs)}
         [] platform = "playwright" /\ ~page_id ->
                {Failure("ConfigError", c, bs)}
         [] parsed.category \notin Supported(platform) ->
                {Failure("PlatformMismatch", c, bs)}
         [] parsed.category = "wait" /\ platform # "playwright" ->
                execute_wait(parsed.action, step.param, c, bs)
         [] platform = "playwright" -> execute_other("BridgeError", c, bs)
         [] parsed.category = "assert" -> execute_other("AssertionFailed", c, bs)
         [] platform = "web" -> execute_web_request(c, bs)
         [] OTHER -> execute_call(platform, c, bs)

\* ensure_playwright .. ensure_web (148-257): the bridges the call leaves;
\* ok is false when it returns Err (no configuration, or the child or the
\* client cannot be started).
ensure(platform, bs, platforms) ==
    IF platform \in RpcPlatforms
    THEN IF bs[platform].up
         THEN {[ok |-> TRUE, bridges |-> bs]}
         ELSE IF platform \notin platforms
              THEN {[ok |-> FALSE, bridges |-> bs]}
              ELSE {[ok |-> TRUE,
                     bridges |-> [bs EXCEPT ![platform] =
                                     [up |-> TRUE, sync |-> NoSync]]],
                    [ok |-> FALSE, bridges |-> bs]}
    ELSE {[ok |-> TRUE, bridges |-> bs], [ok |-> FALSE, bridges |-> bs]}

\* resolve_step_platform (266-282).
resolve_step_platform(step, job, workflow_platform) ==
    CASE step.platform # NoPlatform -> step.platform
      [] job.platform # NoPlatform -> job.platform
      [] workflow_platform # NoPlatform -> workflow_platform
      [] parse(step.uses).ok /\ infer_platform(parse(step.uses).category) # NoPlatform ->
             infer_platform(parse(step.uses).category)
      [] OTHER -> "playwright"

\* The record of a dispatch d of `step` on `platform`.
StepLog(kind, step, platform, d) ==
    [kind |-> kind, uses |-> step.uses, timeout |-> step.timeout,
     platform |-> platform, mismatch |-> (d.error = "PlatformMismatch"),
     unreadable |-> (d.error = "ExpressionError"),
     performed |-> d.performed, slept |-> d.slept, call |-> d.call,
     clock |-> d.clock, bridges |-> d.bridges, succeeded |-> FALSE,
     was_active |-> FALSE, sync_failed |-> {}, launched |-> FALSE,
     page_id |-> 0]

\* Lines 560-566: the outputs of an Ok(step_result) are stored under the
\* step's id by set_output (context.rs 43-48).
StoreOutputs(ctx, step, d) ==
    IF d.ret # "error" /\ step.id # NoId
    THEN [k \in DOMAIN ctx |->
             IF k = step.id THEN ctx[k] \cup d.outputs ELSE ctx[k]]
    ELSE ctx

\* Mutant of AutoAdvance: the time advances whether or not the clock is
\* active.
AutoAdvance_always(c, utc_now) ==
    [c EXCEPT !.virtual_time = now(c, utc_now) + c.step_duration]

\* Lines 554-555.
AutoAdvance(c, utc_now) ==
    IF is_active(c) THEN auto_advance_step(c, utc_now) ELSE c

\* What handling one step leaves: the outcome, the clock, the bridges, the
\* stored outputs and the record
\* of the step. Undispatched is the step that was left before its dispatch.
Undispatched(kind, outcome, step, platform, c, bs, ctx) ==
    [outcome |-> outcome, clock |-> c, bridges |-> bs, steps_out |-> ctx,
     log |-> StepLog(kind, step, platform, Done(c, bs))]

\* Lines 553-594 after a dispatch d on `platform`.
AfterDispatch(step, platform, d, ctx) ==
    {[outcome |-> d.ret,
      clock |-> AutoAdvance(d.clock, utc_now),
      bridges |-> IF is_active(d.clock)
                  THEN sync_clock_to_bridges(AutoAdvance(d.clock, utc_now),
                                             d.bridges, failing)
                  ELSE d.bridges,
      steps_out |-> StoreOutputs(ctx, step, d),
      log |-> [StepLog("step", step, platform, d) EXCEPT
                  !.succeeded = (d.ret = "ok"),
                  !.was_active = is_active(d.clock),
                  !.sync_failed = IF is_active(d.clock) THEN failing ELSE {}]]
     : utc_now \in UtcNows, failing \in SUBSET {b \in RpcPlatforms : d.bridges[b].up}}

\* Mutant of launch: a browser is launched for every browser step.
launch_every_step(platform, browser_id) ==
    IF platform = "playwright"
    THEN {[ok |-> TRUE, launched |-> TRUE, browser_id |-> browser_id + 1],
          [ok |-> FALSE, launched |-> FALSE, browser_id |-> browser_id],
          [ok |-> FALSE, launched |-> TRUE, browser_id |-> browser_id + 1]}
    ELSE {[ok |-> TRUE, launched |-> FALSE, browser_id |-> browser_id]}

\* Lines 519-528: on the browser platform, when browser_id is None (0), the
\* browser is launched and a page is opened in it; browser_launch can
\* return Err, and so can page_new after the browser was launched. The
\* browsers of a job are numbered in the order of their launch.
launch(platform, browser_id) ==
    IF platform = "playwright" /\ browser_id = 0
    THEN {[ok |-> TRUE, launched |-> TRUE, browser_id |-> browser_id + 1],
          [ok |-> FALSE, launched |-> FALSE, browser_id |-> browser_id],
          [ok |-> FALSE, launched |-> TRUE, browser_id |-> browser_id + 1]}
    ELSE {[ok |-> TRUE, launched |-> FALSE, browser_id |-> browser_id]}

\* One pass of the main step loop (485-594): the `if` of the step, when it
\* has one, is true, false ("skip") or an error; an error leaves
\* execute_job through `?` before or instead of the dispatch ("raise": 493,
\* 505, 521-545); the dispatch returns Ok with success ("ok"), Ok with
\* success = false ("unsuccessful") or Err ("error"). browser_id is the
\* browser of the job so far (0: None); the page of a browser has the
\* browser's number.
DispatchStep(step, job, w, c, bs, ctx, browser_id) ==
    LET parsed == parse(step.uses)
        direct == /\ is_platform_agnostic(parsed.category)
                  /\ step.platform = NoPlatform
                  /\ job.platform = NoPlatform
                  /\ w.platform = NoPlatform
        step_platform == resolve_step_platform(step, job, w.platform)
        with_browser(r, l) ==
            [r EXCEPT !.log.launched = l.launched,
                      !.log.page_id = IF l.ok THEN l.browser_id ELSE 0]
        ensured(e) ==
            UNION {IF l.ok
                   THEN {with_browser(r, l) :
                         r \in UNION {AfterDispatch(step, step_platform, d, ctx) :
                                      d \in execute_step(step, step_platform,
                                                         l.browser_id # 0,
                                                         c, e.bridges, ctx)}}
                   ELSE {with_browser(Undispatched("step", "raise", step,
                                                   step_platform, c,
                                                   e.bridges, ctx), l)}
                   : l \in launch(step_platform, browser_id)}
        evaluated(condition) ==
            CASE condition = "error" ->
                     {Undispatched("step", "raise", step, NoPlatform, c, bs, ctx)}
              [] condition = "false" ->
                     {Undispatched("step", "skip", step, NoPlatform, c, bs, ctx)}
              [] ~parsed.ok ->
                     {Undispatched("step", "raise", step, NoPlatform, c, bs, ctx)}
              [] direct ->
                     UNION {AfterDispatch(step, NoPlatform, d, ctx) :
                            d \in execute_platform_agnostic_action(parsed, step, c, bs)}
              [] OTHER ->
                     UNION {IF e.ok
                            THEN ensured(e)
                            ELSE {Undispatched("step", "raise", step,
                                               step_platform, c, e.bridges, ctx)}
                            : e \in ensure(step_platform, bs, w.platforms)}
    IN UNION {evaluated(condition) :
              condition \in IF step.condition THEN {"true", "false", "error"}
                            ELSE {"true"}}

\* Mutant of HookClock: a hook step is followed by the auto-advance.
HookClock_advanced(c) == AutoAdvance(c, 0)

\* The clock after the dispatch of a hook step (726-727): the clock the
\* dispatch left, without auto-advance.
HookClock(c) == c

\* execute_hook_step (671-728): what it returns, Ok with a successful
\* StepResult ("ok"), Ok with success = false ("unsuccessful") or Err
\* ("error"), and the clock, the bridges and the record it leaves.
DispatchHook(step, w, c, bs, ctx) ==
    LET parsed == parse(step.uses)
        platform ==
            CASE step.platform # NoPlatform -> step.platform
              [] w.platform # NoPlatform -> w.platform
              [] infer_platform(parsed.category) # NoPlatform ->
                     infer_platform(parsed.category)
              [] OTHER -> "playwright"
        done(p, d) ==
            [outcome |-> d.ret, clock |-> HookClock(d.clock),
             bridges |-> d.bridges, steps_out |-> ctx,
             log |-> StepLog("hook", step, p, d)]
    IN CASE ~parsed.ok ->
                {Undispatched("hook", "error", step, NoPlatform, c, bs, ctx)}
         [] is_platform_agnostic(parsed.category) /\ step.platform = NoPlatform ->
                {done(NoPlatform, d) :
                 d \in execute_platform_agnostic_action(parsed, step, c, bs)}
         [] OTHER ->
                UNION {IF e.ok
                       THEN {done(platform, d) :
                             d \in execute_step(step, platform, FALSE, c,
                                                e.bridges, ctx)}
                       ELSE {Undispatched("hook", "error", step, platform, c,
                                          e.bridges, ctx)}
                       : e \in ensure(platform, bs, w.platforms)}

\* ------------------------------------------------------------------------
\* Executor::run and Executor::execute_job (executor.rs 285-620)
\* ------------------------------------------------------------------------
\* A job's `if` (381-386): absent, or evaluated to true, to false, or to an
\* error.
ConditionOutcomes == {"none", "true", "false", "error"}

\* Mutant of deps_ok: a job's dependencies always count as succeeded.
deps_ok_always(needs, res) == TRUE

\* Mutant of deps_ok: a dependency without a recorded result counts as
\* succeeded.
deps_ok_missing_ok(needs, res) ==
    \A i \in DOMAIN needs :
        IF needs[i] \in DOMAIN res THEN res[needs[i]].success ELSE TRUE

\* Lines 361-364.
deps_ok(needs, res) ==
    \A i \in DOMAIN needs :
        IF needs[i] \in DOMAIN res THEN res[needs[i]].success ELSE FALSE

\* Mutant of StopsLoop: a failed step never ends the loop.
StopsLoop_never(step_continue_on_error, job_continue_on_error) == FALSE

\* The test of lines 570 and 589.
StopsLoop(step_continue_on_error, job_continue_on_error) ==
    ~step_continue_on_error /\ ~job_continue_on_error

\* Mutant of AfterHook: a failed `after` step makes the scope fail.
AfterHook_strict(success, outcome) == success /\ outcome = "ok"

\* The effect of one `after` step on the success of its scope (427-430,
\* 603-606): none.
AfterHook(success, outcome) == success

\* Mutant of RecordSuccess: a failed job leaves the workflow's success as
\* it was.
RecordSuccess_keep(success, job_success) == success

\* all_success after a job's result is recorded (397-399, 407).
RecordSuccess(success, job_success) == success /\ job_success

\* The JobResult recorded for a job that was not run or whose execute_job
\* returned Err (368-375, 408-415).
FailedJobResult == [success |-> FALSE, steps |-> <<>>]

\* results.insert.
Insert(map, key, value) ==
    [k \in DOMAIN map \cup {key} |-> IF k = key THEN value ELSE map[k]]

\* The position after one job of the loop: the next job, or the `after`
\* hooks once job_order is exhausted.
AfterJob(idx, order) == IF idx > Len(order) THEN "after" ELSE "jobs"

\* Moves an execute_job frame past the lists that are exhausted: from the
\* `before` hooks to the steps, to the `after` hooks, to the return.
Settle(call, job) ==
    LET a == IF call.phase = "before" /\ call.hook_idx > Len(job.before)
             THEN [call EXCEPT !.phase = "steps"] ELSE call
        b == IF a.phase = "steps" /\ a.step_idx > Len(job.steps)
             THEN [a EXCEPT !.phase = "after", !.hook_idx = 1] ELSE a
    IN IF b.phase = "after" /\ b.hook_idx > Len(job.after)
       THEN [b EXCEPT !.phase = "return", !.ret = "Ok",
                      !.success = b.all_success,
                      !.closed = (b.browser_id # 0)]
       ELSE b

\* The `needs` lists of the model: up to MaxNeeds names in ascending order;
\* 0 names no job of the workflow.
NeedLists ==
    {SetToSortedSeq(S) : S \in {T \in SUBSET (0..MaxJobs) : Cardinality(T) <= MaxNeeds}}

\* A step (job.rs 205-239): `uses` as its parts between the '/', platform,
\* id, timeout, whether it has an `if`, continue_on_error, the parameter
\* `time`, `duration` or `ms` of `with`, and the output that `with` refers
\* to. The parameter `timezone` is absent; a step that has one is made from
\* such a step.
Step(uses, platform, id, timeout, condition, continue_on_error, param, reads) ==
    [uses |-> uses, platform |-> platform, id |-> id, timeout |-> timeout,
     condition |-> condition, continue_on_error |-> continue_on_error,
     param |-> param, reads |-> reads, timezone |-> NoTimezone]

\* A request of the web bridge, with an `if`.
WebStep(continue_on_error) ==
    Step(<<"web", "get">>, NoPlatform, NoId, NoTimeout, TRUE,
         continue_on_error, 0, NoRef)

\* The main steps of ExecSpec and JobSpec: requests of the web bridge with
\* either continue_on_error.
StepInputs == {WebStep(continue_on_error) : continue_on_error \in BOOLEAN}

\* The hook lists of ExecSpec and JobSpec: n requests of the web bridge.
Hooks(n) == [i \in 1..n |-> WebStep(FALSE)]

\* The workflows of ExecSpec: every `needs` graph over MaxJobs jobs, every
\* choice of the jobs' continue_on_error, one step in each hook list and one
\* main step without continue_on_error in each job. No platform is set at
\* any level.
JobInputs ==
    [needs : NeedLists, continue_on_error : BOOLEAN, platform : {NoPlatform},
     before : {Hooks(1)}, steps : {<<WebStep(FALSE)>>}, after : {Hooks(1)}]

GraphWorkflows ==
    [jobs : [JobNames -> JobInputs], before : {Hooks(1)}, after : {Hooks(1)},
     platform : {NoPlatform}, platforms : {{}}]

\* The workflows of JobSpec: HookJobs jobs, each of which may need the
\* jobs before it, with MaxHooks steps in each hook list and MaxSteps main
\* steps in each job.
HookJobInputs(j) ==
    [needs : {SetToSortedSeq(S) : S \in SUBSET (1..(j - 1))},
     continue_on_error : BOOLEAN, platform : {NoPlatform},
     before : {Hooks(MaxHooks)}, steps : [1..MaxSteps -> StepInputs],
     after : {Hooks(MaxHooks)}]

HookWorkflows ==
    {w \in [jobs : [1..HookJobs -> HookJobInputs(HookJobs)],
            before : {Hooks(MaxHooks)}, after : {Hooks(MaxHooks)},
            platform : {NoPlatform}, platforms : {{}}] :
        \A j \in 1..HookJobs : w.jobs[j] \in HookJobInputs(j)}

\* The state in which run(w) begins (285-331).
ExecStart(w) ==
    /\ wf = w
    /\ exec_pc = "before"
    /\ hook_idx = 1
    /\ job_order = <<>>
    /\ job_idx = 1
    /\ job_results = <<>>
    /\ all_success = TRUE
    /\ job_call = NoJobCall
    /\ run_result = NoRunResult
    /\ before_status = "ok"
    /\ after_run = 0
    /\ after_status = "ok"
    /\ executed = {}
    /\ processed = <<>>
    /\ ClockIdle
    /\ RpcIdle
    /\ DispatchIdle
    /\ WebIdle
    /\ workflows = <<>>
    /\ build_pc = "idle"
    /\ build_result = "none"
    /\ nodes = <<>>
    /\ execution_levels = <<>>
    /\ fail_fast = FALSE
    /\ max_concurrent = 0
    /\ pending = {}
    /\ results = <<>>
    /\ skipped = <<>>
    /\ failed = FALSE
    /\ permits = 0
    /\ sent = <<>>
    /\ completed_count = 0
    /\ main_pc = "idle"
    /\ passes = <<>>
    /\ workers = <<>>
    /\ executor = <<>>
    /\ contexts = <<>>
    /\ dir_result = NoDirectoryResult

ExecInit == \E w \in GraphWorkflows : ExecStart(w)

JobInit == \E w \in HookWorkflows : ExecStart(w)

\* One step of workflow.before (334-350). Only an Err ends the run.
RunBeforeHook ==
    /\ exec_pc = "before"
    /\ hook_idx <= Len(wf.before)
    /\ \E r \in DispatchHook(wf.before[hook_idx], wf, clock, bridges,
                              steps_out) :
          /\ r.clock.virtual_time <= MaxTime
          /\ clock' = r.clock
          /\ bridges' = r.bridges
          /\ steps_out' = r.steps_out
          /\ step_log' = r.log
          /\ before_status' = IF before_status = "ok" THEN r.outcome ELSE before_status
          /\ IF r.outcome = "error"
             THEN /\ run_result' = [kind |-> "Ok", success |-> FALSE,
                                    jobs |-> job_results, error |-> "none",
                                    detail |-> <<>>]
                  /\ exec_pc' = "done"
                  /\ hook_idx' = hook_idx
             ELSE /\ run_result' = run_result
                  /\ exec_pc' = exec_pc
                  /\ hook_idx' = hook_idx + 1
    /\ UNCHANGED <<dagVars, runVars, http, rpcVars, wall, clock_op, wf, job_order,
                   job_idx, job_results, all_success, job_call, after_run,
                   after_status, executed, processed>>

\* The call of topological_sort (353); `?` returns its error from run.
RunSort ==
    /\ exec_pc = "before"
    /\ hook_idx > Len(wf.before)
    /\ \E keys \in IterationOrders(DOMAIN wf.jobs) :
          LET sorted == topological_sort(wf.jobs, keys)
          IN IF sorted.error # "none"
             THEN /\ run_result' = [kind |-> "Err", success |-> FALSE,
                                    jobs |-> <<>>, error |-> sorted.error,
                                    detail |-> sorted.detail]
                  /\ exec_pc' = "done"
                  /\ job_order' = job_order
             ELSE /\ run_result' = run_result
                  /\ exec_pc' = AfterJob(1, sorted.result)
                  /\ job_order' = sorted.result
    /\ job_idx' = 1
    /\ hook_idx' = 1
    /\ UNCHANGED <<dagVars, runVars, http, rpcVars, clockVars, dispatchVars,
                   wf, job_results, all_success, job_call,
                   before_status, after_run, after_status, executed, processed>>

\* The head of one pass of the job loop (357-390): the dependency check,
\* the job's `if`, and the entry into execute_job (443-463).
RunJob ==
    /\ exec_pc = "jobs"
    /\ LET job_name == job_order[job_idx]
           job == wf.jobs[job_name]
       IN IF ~deps_ok(job.needs, job_results) /\ ~job.continue_on_error
          THEN /\ job_results' = Insert(job_results, job_name, FailedJobResult)
               /\ all_success' = RecordSuccess(all_success, FALSE)
               /\ job_idx' = job_idx + 1
               /\ exec_pc' = AfterJob(job_idx + 1, job_order)
               /\ processed' = Append(processed, [job |-> job_name, how |-> "recorded"])
               /\ UNCHANGED <<job_call, run_result, executed>>
          ELSE \E condition \in ConditionOutcomes :
                  CASE condition = "error" ->
                          /\ run_result' = [kind |-> "Err", success |-> FALSE,
                                            jobs |-> <<>>,
                                            error |-> "ExpressionError",
                                            detail |-> <<job_name>>]
                          /\ exec_pc' = "done"
                          /\ UNCHANGED <<job_results, all_success, job_idx,
                                         job_call, executed, processed>>
                    [] condition = "false" ->
                          /\ job_idx' = job_idx + 1
                          /\ exec_pc' = AfterJob(job_idx + 1, job_order)
                          /\ processed' = Append(processed, [job |-> job_name, how |-> "skipped"])
                          /\ UNCHANGED <<job_results, all_success, job_call,
                                         run_result, executed>>
                    [] OTHER ->
                          /\ job_call' = Settle([NoJobCall EXCEPT
                                                    !.job_name = job_name,
                                                    !.phase = "before"], job)
                          /\ exec_pc' = "job"
                          /\ executed' = executed \cup {job_name}
                          /\ processed' = Append(processed, [job |-> job_name, how |-> "executed"])
                          /\ UNCHANGED <<job_results, all_success, job_idx,
                                         run_result>>
    /\ UNCHANGED <<dagVars, runVars, http, rpcVars, clockVars, dispatchVars,
                   wf, hook_idx, job_order, before_status,
                   after_run, after_status>>

\* One step of job.before (466-482). Only an Err ends execute_job, with
\* success = false and no step results.
JobBeforeHook ==
    /\ exec_pc = "job"
    /\ job_call.phase = "before"
    /\ \E r \in DispatchHook(wf.jobs[job_call.job_name].before[job_call.hook_idx],
                              wf, clock, bridges, steps_out) :
          LET job == wf.jobs[job_call.job_name]
              outcome == r.outcome
              seen == [job_call EXCEPT
                          !.before_failed = (@ \/ outcome # "ok")]
          IN /\ r.clock.virtual_time <= MaxTime
             /\ clock' = r.clock
             /\ bridges' = r.bridges
             /\ steps_out' = r.steps_out
             /\ step_log' = r.log
             /\ job_call' =
                    IF outcome = "error"
                    THEN [seen EXCEPT !.phase = "return", !.ret = "Ok",
                                      !.success = FALSE]
                    ELSE Settle([seen EXCEPT !.hook_idx = @ + 1], job)
    /\ UNCHANGED <<dagVars, runVars, http, rpcVars, wall, clock_op, wf, exec_pc, hook_idx, job_order, job_idx,
                   job_results, all_success, run_result, before_status,
                   after_run, after_status, executed, processed>>

\* One pass of the main step loop (485-594).
JobStep ==
    /\ exec_pc = "job"
    /\ job_call.phase = "steps"
    /\ \E r \in DispatchStep(wf.jobs[job_call.job_name].steps[job_call.step_idx],
                              wf.jobs[job_call.job_name], wf, clock, bridges,
                              steps_out, job_call.browser_id) :
          LET job == wf.jobs[job_call.job_name]
              idx == job_call.step_idx
              step == job.steps[idx]
              outcome == r.outcome
              call == IF r.log.launched
                      THEN [job_call EXCEPT !.browser_id = @ + 1,
                                            !.launches = @ + 1]
                      ELSE job_call
              pushed(ok) ==
                  [call EXCEPT
                      !.step_results = Append(@, [step |-> idx, success |-> ok]),
                      !.steps_run = @ \cup {idx},
                      !.all_success = (@ /\ ok)]
          IN /\ r.clock.virtual_time <= MaxTime
             /\ clock' = r.clock
             /\ bridges' = r.bridges
             /\ steps_out' = r.steps_out
             /\ step_log' = r.log
             /\ job_call' =
                    CASE outcome = "skip" ->
                             Settle([call EXCEPT !.step_idx = idx + 1], job)
                      [] outcome = "raise" ->
                             [call EXCEPT !.phase = "return", !.ret = "Err",
                                              !.success = FALSE]
                      [] outcome = "ok" ->
                             Settle([pushed(TRUE) EXCEPT !.step_idx = idx + 1], job)
                      [] OTHER ->
                             IF StopsLoop(step.continue_on_error,
                                          job.continue_on_error)
                             THEN Settle([pushed(FALSE) EXCEPT !.phase = "after",
                                                               !.hook_idx = 1,
                                                               !.stopped = TRUE],
                                         job)
                             ELSE Settle([pushed(FALSE) EXCEPT !.step_idx = idx + 1],
                                         job)
    /\ UNCHANGED <<dagVars, runVars, http, rpcVars, wall, clock_op, wf, exec_pc, hook_idx, job_order, job_idx,
                   job_results, all_success, run_result, before_status,
                   after_run, after_status, executed, processed>>

\* One step of job.after (597-608); its result is only logged.
JobAfterHook ==
    /\ exec_pc = "job"
    /\ job_call.phase = "after"
    /\ \E r \in DispatchHook(wf.jobs[job_call.job_name].after[job_call.hook_idx],
                              wf, clock, bridges, steps_out) :
          /\ r.clock.virtual_time <= MaxTime
          /\ clock' = r.clock
          /\ bridges' = r.bridges
          /\ steps_out' = r.steps_out
          /\ step_log' = r.log
          /\ job_call' =
                 Settle([job_call EXCEPT
                            !.hook_idx = @ + 1,
                            !.after_run = @ + 1,
                            !.all_success = AfterHook(@, r.outcome)],
                        wf.jobs[job_call.job_name])
    /\ UNCHANGED <<dagVars, runVars, http, rpcVars, wall, clock_op, wf, exec_pc, hook_idx, job_order, job_idx,
                   job_results, all_success, run_result, before_status,
                   after_run, after_status, executed, processed>>

\* execute_job has returned: the match of lines 395-417.
RunRecord ==
    /\ exec_pc = "job"
    /\ job_call.phase = "return"
    /\ IF job_call.ret = "Ok"
       THEN /\ all_success' = RecordSuccess(all_success, job_call.success)
            /\ job_results' =
                   Insert(job_results, job_call.job_name,
                          [success |-> job_call.success,
                           steps |-> job_call.step_results])
       ELSE /\ all_success' = RecordSuccess(all_success, FALSE)
            /\ job_results' =
                   Insert(job_results, job_call.job_name, FailedJobResult)
    /\ job_call' = NoJobCall
    /\ job_idx' = job_idx + 1
    /\ exec_pc' = AfterJob(job_idx + 1, job_order)
    /\ UNCHANGED <<dagVars, runVars, http, rpcVars, clockVars, dispatchVars,
                   wf, hook_idx, job_order, run_result,
                   before_status, after_run, after_status, executed, processed>>

\* One step of workflow.after (421-432); its result is only logged.
RunAfterHook ==
    /\ exec_pc = "after"
    /\ hook_idx <= Len(wf.after)
    /\ \E r \in DispatchHook(wf.after[hook_idx], wf, clock, bridges,
                              steps_out) :
          /\ r.clock.virtual_time <= MaxTime
          /\ clock' = r.clock
          /\ bridges' = r.bridges
          /\ steps_out' = r.steps_out
          /\ step_log' = r.log
          /\ all_success' = AfterHook(all_success, r.outcome)
          /\ after_status' = IF after_status = "ok" THEN r.outcome ELSE after_status
    /\ hook_idx' = hook_idx + 1
    /\ after_run' = after_run + 1
    /\ UNCHANGED <<dagVars, runVars, http, rpcVars, wall, clock_op, wf, exec_pc, job_order, job_idx,
                   job_results, job_call, run_result, before_status, executed,
                   processed>>

\* Lines 434-438.
RunReturn ==
    /\ exec_pc = "after"
    /\ hook_idx > Len(wf.after)
    /\ run_result' = [kind |-> "Ok", success |-> all_success,
                      jobs |-> job_results, error |-> "none",
                      detail |-> <<>>]
    /\ exec_pc' = "done"
    /\ UNCHANGED <<dagVars, runVars, http, rpcVars, clockVars, dispatchVars,
                   wf, hook_idx, job_order, job_idx,
                   job_results, all_success, job_call, before_status,
                   after_run, after_status, executed, processed>>

ExecNext ==
    \/ RunBeforeHook
    \/ RunSort
    \/ RunJob
    \/ JobBeforeHook
    \/ JobStep
    \/ JobAfterHook
    \/ RunRecord
    \/ RunAfterHook
    \/ RunReturn

ExecSpec == ExecInit /\ [][ExecNext]_vars

JobSpec == JobInit /\ [][ExecNext]_vars

\* ------------------------------------------------------------------------
\* Properties of Executor::run
\* ------------------------------------------------------------------------
\* The jobs a job names in `needs`.
Needs(j) == Range(wf.jobs[j].needs)

\* Every `needs` entry names a job of the workflow.
NeedsResolved == \A j \in DOMAIN wf.jobs : Needs(j) \subseteq DOMAIN wf.jobs

\* The jobs reachable from the jobs of S along `needs`, S included.
RECURSIVE NeedsClosure(_)
NeedsClosure(S) ==
    LET more == S \cup UNION {Needs(j) \cap DOMAIN wf.jobs : j \in S}
    IN IF more = S THEN S ELSE NeedsClosure(more)

\* j is on a cycle of the `needs` graph.
OnCycle(j) == j \in NeedsClosure(Needs(j) \cap DOMAIN wf.jobs)

NeedsAcyclic == \A j \in DOMAIN wf.jobs : ~OnCycle(j)

\* Some workflow `before` step returned Err, which ends the run at once.
BeforeAborted == before_status = "error"

\* Every workflow `before` step was executed and succeeded.
BeforeSucceeded ==
    /\ ~(exec_pc = "before" /\ hook_idx <= Len(wf.before))
    /\ before_status = "ok"

\* C11: with an acyclic, fully resolved `needs` graph, whatever the iteration
\* order of the jobs map: the loop deals with no job twice, with one job at a
\* time (the job inside execute_job is the one it dealt with last), with every
\* job of `needs` strictly before the job that needs it, and, once the loop
\* is through, it has dealt with every job of the workflow.
C11_NeedsOrder ==
    (NeedsResolved /\ NeedsAcyclic) =>
        /\ \A i, k \in DOMAIN processed :
               processed[i].job = processed[k].job => i = k
        /\ \A i \in DOMAIN processed :
               Needs(processed[i].job) \subseteq
                   {processed[k].job : k \in 1..(i - 1)}
        /\ executed = {processed[i].job : i \in {k \in DOMAIN processed :
                                                     processed[k].how = "executed"}}
        /\ exec_pc = "job" =>
               job_call.job_name = processed[Len(processed)].job
        /\ exec_pc = "after" =>
               {processed[i].job : i \in DOMAIN processed} = DOMAIN wf.jobs

\* A completed job loop in which a job needed a job with a greater name, so
\* the order is not the order of the names.
C11_Witness ==
    /\ NeedsResolved /\ NeedsAcyclic
    /\ exec_pc = "after"
    /\ Len(processed) = MaxJobs
    /\ \E a \in DOMAIN wf.jobs : \E b \in Needs(a) : b > a
    /\ executed # {}

HasFailedNeed(j) ==
    \E d \in Needs(j) : d \in DOMAIN job_results /\ ~job_results[d].success

\* The loop is at the head of the pass for a job without continue_on_error
\* that needs a failed job.
AtBlockedJob ==
    /\ exec_pc = "jobs"
    /\ HasFailedNeed(job_order[job_idx])
    /\ ~wf.jobs[job_order[job_idx]].continue_on_error

C13_Step ==
    AtBlockedJob =>
        /\ job_results' = Insert(job_results, job_order[job_idx],
                                 [success |-> FALSE, steps |-> <<>>])
        /\ all_success' = FALSE
        /\ executed' = executed
        /\ job_call' = job_call
        /\ run_result' = run_result
        /\ job_idx' = job_idx + 1
        /\ exec_pc' = IF job_idx < Len(job_order) THEN "jobs" ELSE "after"

C13_State ==
    \A j \in DOMAIN wf.jobs :
        (HasFailedNeed(j) /\ ~wf.jobs[j].continue_on_error) =>
            /\ j \notin executed
            /\ ~(exec_pc = "job" /\ job_call.job_name = j)
            /\ j \in DOMAIN job_results =>
                   /\ job_results[j] = [success |-> FALSE, steps |-> <<>>]
                   /\ ~all_success

\* C13: a job without continue_on_error that needs a job recorded with
\* success = false is recorded with success = false and no step results,
\* never enters execute_job (none of its before hooks, steps or after hooks
\* runs), makes run's all_success false, and the loop goes on with the next
\* job of the order.
C13_FailedNeed == [](C13_State) /\ [][C13_Step]_vars

\* A job recorded without being executed because a job it needs was executed
\* and failed, with the loop at the next job.
C13_Witness ==
    /\ exec_pc = "jobs"
    /\ \E j \in DOMAIN job_results :
          /\ j \notin executed
          /\ ~wf.jobs[j].continue_on_error
          /\ \E d \in Needs(j) \cap executed :
                 d \in DOMAIN job_results /\ ~job_results[d].success

\* The job execute_job is working on.
CurrentJob == wf.jobs[job_call.job_name]

\* The step or its job sets continue_on_error.
Continues(job, k) ==
    job.steps[k].continue_on_error \/ job.continue_on_error

\* The step results with success = false.
FailedSteps(step_results) ==
    {step_results[p].step : p \in {q \in DOMAIN step_results :
                                       ~step_results[q].success}}

\* How often main step k appears in a list of step results.
Occurrences(step_results, k) ==
    Cardinality({p \in DOMAIN step_results : step_results[p].step = k})

\* This step of execute_job is a pass of the main loop in which the step
\* failed: a step result with success = false is pushed.
MainStepFails ==
    /\ exec_pc = "job"
    /\ job_call.phase = "steps"
    /\ Len(job_call'.step_results) = Len(job_call.step_results) + 1
    /\ ~job_call'.step_results[Len(job_call'.step_results)].success

\* After a failed step the loop goes on to the next step exactly when the
\* step or the job sets continue_on_error.
C14_Step ==
    MainStepFails =>
        /\ ~job_call'.all_success
        /\ Occurrences(job_call'.step_results, job_call.step_idx) = 1
        /\ IF Continues(CurrentJob, job_call.step_idx)
           THEN job_call.step_idx < Len(CurrentJob.steps) =>
                    /\ job_call'.phase = "steps"
                    /\ job_call'.step_idx = job_call.step_idx + 1
           ELSE job_call'.phase # "steps"

\* No main step after a failed step without continue_on_error is executed.
C14_NoLater ==
    exec_pc = "job" =>
        \A k \in FailedSteps(job_call.step_results) :
            ~Continues(CurrentJob, k) =>
                /\ job_call.phase # "steps"
                /\ \A later \in job_call.steps_run : later <= k

\* When execute_job has returned after a main step failed, the job is
\* recorded with success = false and with the failed step once in its steps.
C14_Record ==
    (/\ exec_pc = "job"
     /\ job_call.phase = "return"
     /\ FailedSteps(job_call.step_results) # {}) =>
        /\ job_call.job_name \in DOMAIN job_results'
        /\ ~job_results'[job_call.job_name].success
        /\ \A k \in FailedSteps(job_call.step_results) :
               Occurrences(job_results'[job_call.job_name].steps, k) = 1

\* C14: when a main step fails (its dispatch returns a result with success =
\* false, or Err): with continue_on_error on the step or the job the loop
\* goes on with the next step, otherwise no later main step of the job is
\* executed; in both cases the job is recorded with success = false and the
\* failed step appears exactly once in the recorded step results.
C14_StepFailure == [](C14_NoLater) /\ [][C14_Step /\ C14_Record]_vars

\* The part of C14 that holds: everything but the recorded step results.
C14_LoopControl == [](C14_NoLater) /\ [][C14_Step]_vars

\* This step of execute_job is a pass of the main loop that ends with an
\* error: one that leaves execute_job through `?`, or one recorded as a step
\* result with success = false.
StepErrorRaised ==
    /\ exec_pc = "job"
    /\ job_call.phase = "steps"
    /\ job_call'.ret = "Err" \/ MainStepFails

C15_Step ==
    StepErrorRaised =>
        /\ job_call'.step_results =
               Append(job_call.step_results,
                      [step |-> job_call.step_idx, success |-> FALSE])
        /\ IF Continues(CurrentJob, job_call.step_idx)
           THEN job_call.step_idx < Len(CurrentJob.steps) =>
                    /\ job_call'.phase = "steps"
                    /\ job_call'.step_idx = job_call.step_idx + 1
           ELSE job_call'.phase # "steps"

\* C15: every error raised while a main step is processed is recorded as a
\* step result with success = false for that step, and the loop goes on to
\* the next step exactly when the step or the job sets continue_on_error.
C15_StepErrors == [][C15_Step]_vars

\* Some workflow `before` step did not succeed.
WorkflowBeforeFailed == before_status # "ok"

C16_State ==
    /\ WorkflowBeforeFailed =>
           /\ executed = {}
           /\ exec_pc = "done" =>
                  /\ run_result.kind = "Ok"
                  /\ ~run_result.success
                  /\ run_result.jobs = <<>>
    /\ (exec_pc = "job" /\ job_call.before_failed) =>
           /\ job_call.steps_run = {}
           /\ job_call.phase = "return" =>
                  job_call.ret = "Ok" /\ ~job_call.success

C16_Record ==
    (exec_pc = "job" /\ job_call.phase = "return" /\ job_call.before_failed) =>
        /\ job_call.job_name \in DOMAIN job_results'
        /\ ~job_results'[job_call.job_name].success
        /\ exec_pc' = IF job_idx < Len(job_order) THEN "jobs" ELSE "after"

\* C16: if a workflow `before` step fails, no job is executed and run returns
\* a result with success = false and an empty jobs map; if a job `before`
\* step fails, the job executes none of its main steps and is recorded with
\* success = false, and the loop goes on with the following jobs.
C16_BeforeFailure == [](C16_State) /\ [][C16_Record]_vars

\* C17: a run in which the workflow `before` hooks succeeded does not end
\* before every workflow `after` step was executed, whatever happened in
\* between.
C17_AfterAlways ==
    (exec_pc = "done" /\ BeforeSucceeded) => after_run = Len(wf.after)

\* execute_job returns for a job none of whose `before` steps failed.
C18_Step ==
    (/\ exec_pc = "job"
     /\ job_call.phase # "return"
     /\ job_call'.phase = "return"
     /\ ~job_call'.before_failed) =>
        job_call'.after_run = Len(CurrentJob.after)

\* C18: when execute_job returns for a job whose `before` hooks succeeded,
\* every `after` step of the job has been executed, also when a main step
\* failed and ended the loop.
C18_JobAfterAlways == [][C18_Step]_vars

\* A step of a workflow `after` list, whatever it returns: run's all_success
\* and the recorded results stay as they are and the loop moves on.
C19_WorkflowStep ==
    (exec_pc = "after" /\ hook_idx <= Len(wf.after)) =>
        /\ all_success' = all_success
        /\ job_results' = job_results
        /\ exec_pc' = "after"
        /\ hook_idx' = hook_idx + 1
        /\ after_run' = after_run + 1

\* A step of a job `after` list, whatever it returns: the job's and run's
\* all_success stay as they are and the loop moves on; after the last step
\* execute_job returns the job's all_success.
C19_JobStep ==
    (exec_pc = "job" /\ job_call.phase = "after") =>
        /\ job_call'.all_success = job_call.all_success
        /\ all_success' = all_success
        /\ job_call'.after_run = job_call.after_run + 1
        /\ IF job_call.hook_idx < Len(CurrentJob.after)
           THEN /\ job_call'.phase = "after"
                /\ job_call'.hook_idx = job_call.hook_idx + 1
           ELSE /\ job_call'.phase = "return"
                /\ job_call'.ret = "Ok"
                /\ job_call'.success = job_call.all_success

\* An `after` list that was begun is executed to its end, and run returns
\* the all_success it had.
C19_State ==
    /\ (exec_pc = "job" /\ job_call.phase = "return" /\ job_call.after_run > 0) =>
           job_call.after_run = Len(CurrentJob.after)
    /\ (exec_pc = "done" /\ after_run > 0) =>
           /\ after_run = Len(wf.after)
           /\ run_result.kind = "Ok"
           /\ run_result.success = all_success

\* C19: a failure of an `after` step, of a job or of the workflow, leaves
\* the job's success and the workflow's success as they were before the hook
\* ran, and the remaining steps of that `after` list are still executed.
C19_AfterFailure ==
    [](C19_State) /\ [][C19_WorkflowStep /\ C19_JobStep]_vars

\* A run that returned success = true, with a job recorded as succeeded,
\* although its first workflow `after` step returned Err.
C19_Witness ==
    /\ exec_pc = "done"
    /\ after_status = "error"
    /\ after_run = Len(wf.after)
    /\ run_result.kind = "Ok"
    /\ run_result.success
    /\ DOMAIN run_result.jobs = DOMAIN wf.jobs

\* The jobs the loop skipped because their `if` was false.
SkippedByIf ==
    {processed[i].job : i \in {k \in DOMAIN processed :
                                  processed[k].how = "skipped"}}

\* C20: when run returns a result and no workflow `before` step ended the
\* run, the result's success is true exactly when every entry of its jobs map
\* has success = true (true for an empty map); a job skipped by its `if` has
\* no entry.
C20_SuccessIsConjunction ==
    (exec_pc = "done" /\ run_result.kind = "Ok" /\ ~BeforeAborted) =>
        /\ run_result.success =
               (\A j \in DOMAIN run_result.jobs : run_result.jobs[j].success)
        /\ SkippedByIf \cap DOMAIN run_result.jobs = {}

\* A run that returned success = true with a job skipped by its `if` and a
\* job recorded; and the failing case is reached by the runs with a failed
\* job.
C20_Witness ==
    /\ exec_pc = "done"
    /\ run_result.kind = "Ok"
    /\ BeforeSucceeded
    /\ run_result.success
    /\ SkippedByIf # {}
    /\ DOMAIN run_result.jobs # {}

\* ------------------------------------------------------------------------
\* MockClock (engine/mock_clock.rs)
\* ------------------------------------------------------------------------
\* The scheduler's and the builder's variables while neither is in use.
DirectoryIdle ==
    /\ workflows = <<>>
    /\ build_pc = "idle"
    /\ build_result = "none"
    /\ nodes = <<>>
    /\ execution_levels = <<>>
    /\ fail_fast = FALSE
    /\ max_concurrent = 0
    /\ pending = {}
    /\ results = <<>>
    /\ skipped = <<>>
    /\ failed = FALSE
    /\ permits = 0
    /\ sent = <<>>
    /\ completed_count = 0
    /\ main_pc = "idle"
    /\ passes = <<>>
    /\ workers = <<>>
    /\ executor = <<>>
    /\ contexts = <<>>
    /\ dir_result = NoDirectoryResult

\* The call recorded in clock_op.
ClockOp(op, ret, arg) == [op |-> op, ret |-> ret, arg |-> arg]

\* Utc::now() is read only when no virtual time is set (unwrap_or_else).
ReadWall(c, utc_now) == wall' = IF is_active(c) THEN wall ELSE utc_now

ClockSet ==
    /\ \E time \in Times :
          /\ clock' = set(clock, time)
          /\ clock_op' = ClockOp("set", "Ok", time)
    /\ UNCHANGED <<dagVars, runVars, http, dispatchVars, rpcVars, runnerVars, wall>>

ClockForward ==
    /\ \E duration \in Durations, utc_now \in UtcNows :
          /\ now(clock, utc_now) + duration <= MaxTime
          /\ clock' = forward(clock, duration, utc_now)
          /\ clock_op' = ClockOp("forward", "Ok", duration)
          /\ ReadWall(clock, utc_now)
    /\ UNCHANGED <<dagVars, runVars, http, dispatchVars, rpcVars, runnerVars>>

ClockForwardUntil ==
    /\ \E target \in Times, utc_now \in UtcNows :
          LET returned == forward_until(clock, target, utc_now)
          IN /\ clock' = returned.clock
             /\ clock_op' = ClockOp("forward_until", returned.ret, target)
             /\ ReadWall(clock, utc_now)
    /\ UNCHANGED <<dagVars, runVars, http, dispatchVars, rpcVars, runnerVars>>

ClockReset ==
    /\ clock' = reset(clock)
    /\ clock_op' = ClockOp("reset", "Ok", 0)
    /\ UNCHANGED <<dagVars, runVars, http, dispatchVars, rpcVars, runnerVars, wall>>

ClockAutoAdvanceStep ==
    /\ \E utc_now \in UtcNows :
          /\ clock.auto_advance =>
                 now(clock, utc_now) + clock.step_duration <= MaxTime
          /\ clock' = auto_advance_step(clock, utc_now)
          /\ clock_op' = ClockOp("auto_advance_step", "Ok", 0)
          /\ wall' = IF clock.auto_advance /\ ~is_active(clock)
                     THEN utc_now ELSE wall
    /\ UNCHANGED <<dagVars, runVars, http, dispatchVars, rpcVars, runnerVars>>

ClockSetTimezone ==
    /\ \E offset_hours \in {-8, 0, 5} :
          /\ clock' = set_timezone(clock, offset_hours)
          /\ clock_op' = ClockOp("set_timezone", "Ok", offset_hours)
    /\ UNCHANGED <<dagVars, runVars, http, dispatchVars, rpcVars, runnerVars, wall>>

ClockSetTimezoneName ==
    /\ \E name \in TimezoneNames :
          LET returned == set_timezone_name(clock, name)
          IN /\ clock' = returned.clock
             /\ clock_op' = ClockOp("set_timezone_name", returned.ret, 0)
    /\ UNCHANGED <<dagVars, runVars, http, dispatchVars, rpcVars, runnerVars, wall>>

\* set_auto_advance (192-195).
ClockSetAutoAdvance ==
    /\ \E enabled \in BOOLEAN :
          /\ clock' = [clock EXCEPT !.auto_advance = enabled]
          /\ clock_op' = ClockOp("set_auto_advance", "Ok", 0)
    /\ UNCHANGED <<dagVars, runVars, http, dispatchVars, rpcVars, runnerVars, wall>>

ClockInit == ExecIdle /\ DirectoryIdle

ClockNext ==
    \/ ClockSet
    \/ ClockForward
    \/ ClockForwardUntil
    \/ ClockReset
    \/ ClockAutoAdvanceStep
    \/ ClockSetTimezone
    \/ ClockSetTimezoneName
    \/ ClockSetAutoAdvance

ClockSpec == ClockInit /\ [][ClockNext]_vars

\* C24: over the clock operations other than reset, applied to a clock
\* whose virtual time has been set, now() never decreases from one
\* operation to the next.
C24_Monotonic ==
    [][(is_active(clock) /\ clock_op'.op # "reset")
          => now(clock', wall') >= now(clock, wall)]_vars

\* The current time a call of forward_until compares its target with: the
\* virtual time, or what Utc::now() returned to the call.
CurrentTime == now(clock, wall')

\* C25: forward_until(t) with t earlier than the current time returns the
\* backwards-move error and changes neither the virtual time, nor frozen,
\* nor the timezone offset; with any other t it returns Ok, sets the
\* virtual time to t and frozen to true.
C25_ForwardUntil ==
    [][clock_op'.op = "forward_until" =>
          IF clock_op'.arg < CurrentTime
          THEN /\ clock_op'.ret = "CannotGoBackwards"
               /\ clock'.virtual_time = clock.virtual_time
               /\ clock'.frozen = clock.frozen
               /\ clock'.timezone_offset_secs = clock.timezone_offset_secs
          ELSE /\ clock_op'.ret = "Ok"
               /\ clock'.virtual_time = clock_op'.arg
               /\ clock'.frozen]_vars

\* forward_until has refused a target before the wall clock on a clock
\* that has no virtual time and a timezone offset.
C25_Witness ==
    /\ clock_op.op = "forward_until"
    /\ clock_op.ret = "CannotGoBackwards"
    /\ clock.timezone_offset_secs # 0
    /\ ~is_active(clock)
    /\ wall > clock_op.arg

\* ------------------------------------------------------------------------
\* JSON-RPC transport (bridge/rpc.rs)
\* ------------------------------------------------------------------------
\* A call of send_request that has not returned.
Waiting == [state |-> "waiting", kind |-> "none", line |-> 0]

\* What a call returned: the Ok or the ServerError made from the response
\* line `line`, or Disconnected.
Returned(kind, line) == [state |-> "returned", kind |-> kind, line |-> line]

\* Mutant of Disconnect: the calls whose sender is dropped keep waiting.
Disconnect_lost(cs, ids) == cs

\* The calls whose oneshot sender is dropped, or is sent
\* Err(Disconnected), return Disconnected (105, 128).
Disconnect(cs, ids) ==
    [c \in DOMAIN cs |-> IF c \in ids THEN Returned("Disconnected", 0) ELSE cs[c]]

\* The read_line future is dropped when the other branch of select!
\* completes first (121-137): read_line is not cancellation safe, the part
\* of the line it has consumed is lost with it.
CancelRead(state) == IF state = "partial" THEN "torn" ELSE state

\* The match of 143-148.
ResponseResult(line) == IF line.kind = "error" THEN "ServerError" ELSE "Ok"

\* What the task did.
RpcEvent(op, line, id) == [op |-> op, line |-> line, id |-> id]

\* The task leaves its loop (break at 129, 133, 139, 154): `pending` and
\* request_rx are dropped with every sender they hold.
Stop(event) ==
    /\ task' = "stopped"
    /\ calls' = Disconnect(calls, rpc_pending \cup Range(request_rx))
    /\ at_stop' = [outstanding |-> {c \in DOMAIN calls : calls[c].state = "waiting"},
                   request_id |-> request_id]
    /\ rpc_pending' = {}
    /\ request_rx' = <<>>
    /\ rpc_event' = event

\* send_request (92-106), up to the wait for the answer.
SendRequest ==
    /\ request_id <= MaxCalls
    /\ request_tx = "open"
    /\ request_id' = request_id + 1
    /\ IF task = "stopped"
       THEN /\ calls' = Insert(calls, request_id, Returned("Disconnected", 0))
            /\ request_rx' = request_rx
       ELSE /\ calls' = Insert(calls, request_id, Waiting)
            /\ request_rx' = Append(request_rx, request_id)
    /\ UNCHANGED <<dagVars, runVars, http, runnerVars, clockVars, dispatchVars,
                   request_tx,
                   rpc_pending, child_stdin, written, child_stdout, read_state,
                   task, rpc_event, at_stop>>

\* The bridge is dropped, and its request_tx with it.
DropBridge ==
    /\ request_tx = "open"
    /\ request_tx' = "dropped"
    /\ UNCHANGED <<dagVars, runVars, http, runnerVars, clockVars, dispatchVars,
                   request_id, calls,
                   request_rx, rpc_pending, child_stdin, written, child_stdout,
                   read_state, task, rpc_event, at_stop>>

\* The branch `request = request_rx.recv()` (122-135).
TaskRecv ==
    /\ task = "running"
    /\ IF request_rx # <<>>
       THEN LET id == Head(request_rx)
            IN \E write_all \in {"Ok", "Err"} :
                  IF write_all = "Err"
                  THEN /\ Stop(RpcEvent("write_error", 0, id))
                       /\ UNCHANGED <<child_stdin, read_state>>
                  ELSE /\ child_stdin' = child_stdin \cup {id}
                       /\ rpc_pending' = rpc_pending \cup {id}
                       /\ request_rx' = Tail(request_rx)
                       /\ read_state' = CancelRead(read_state)
                       /\ rpc_event' = RpcEvent("write", 0, id)
                       /\ UNCHANGED <<calls, task, at_stop>>
       ELSE /\ request_tx = "dropped"
            /\ Stop(RpcEvent("closed", 0, 0))
            /\ UNCHANGED <<child_stdin, read_state>>
    /\ UNCHANGED <<dagVars, runVars, http, runnerVars, clockVars, dispatchVars,
                   request_id,
                   request_tx, written, child_stdout>>

\* The child writes a line to its stdout: the answer to a request it has
\* read, with a result or an error, a response with an id it was never
\* sent (0), or a line that is not a response.
ChildWrite ==
    /\ Len(written) < MaxLines
    /\ \E id \in child_stdin \cup {0}, kind \in {"result", "error", "invalid"} :
          /\ written' = Append(written, [id |-> id, kind |-> kind])
          /\ child_stdout' = Append(child_stdout, Len(written) + 1)
    /\ UNCHANGED <<dagVars, runVars, http, runnerVars, clockVars, dispatchVars,
                   request_id, calls,
                   request_tx, request_rx, rpc_pending, child_stdin, read_state,
                   task, rpc_event, at_stop>>

\* read_line is polled and takes the part of the line that has arrived;
\* the rest has not arrived yet.
TaskReadPartial ==
    /\ task = "running"
    /\ child_stdout # <<>>
    /\ read_state = "whole"
    /\ read_state' = "partial"
    /\ UNCHANGED <<dagVars, runVars, http, runnerVars, clockVars, dispatchVars,
                   request_id, calls,
                   request_tx, request_rx, rpc_pending, child_stdin, written,
                   child_stdout, task, rpc_event, at_stop>>

\* The branch `result = reader.read_line(&mut line)` with Ok(n), n > 0
\* (140-153). What is left of a line whose beginning was lost does not
\* parse as a response.
TaskReadLine ==
    /\ task = "running"
    /\ child_stdout # <<>>
    /\ LET n == Head(child_stdout)
           response == written[n]
       IN IF /\ read_state # "torn"
             /\ response.kind # "invalid"
             /\ response.id \in rpc_pending
          THEN /\ rpc_pending' = rpc_pending \ {response.id}
               /\ calls' = [calls EXCEPT ![response.id] =
                               Returned(ResponseResult(response), n)]
               /\ rpc_event' = RpcEvent("resolved", n, response.id)
          ELSE /\ rpc_event' = RpcEvent("dropped", n, response.id)
               /\ UNCHANGED <<rpc_pending, calls>>
    /\ child_stdout' = Tail(child_stdout)
    /\ read_state' = "whole"
    /\ UNCHANGED <<dagVars, runVars, http, runnerVars, clockVars, dispatchVars,
                   request_id,
                   request_tx, request_rx, child_stdin, written, task, at_stop>>

\* read_line returns Ok(0) at the end of the child's output, or Err
\* (139, 154).
TaskReadEnd ==
    /\ task = "running"
    /\ \E result \in {"eof", "error"} :
          /\ result = "eof" => child_stdout = <<>>
          /\ Stop(RpcEvent(result, 0, 0))
    /\ UNCHANGED <<dagVars, runVars, http, runnerVars, clockVars, dispatchVars,
                   request_id,
                   request_tx, child_stdin, written, child_stdout, read_state>>

RpcInit == ExecIdle /\ DirectoryIdle

RpcNext ==
    \/ SendRequest
    \/ DropBridge
    \/ TaskRecv
    \/ ChildWrite
    \/ TaskReadPartial
    \/ TaskReadLine
    \/ TaskReadEnd

RpcSpec == RpcInit /\ [][RpcNext]_vars

\* ------------------------------------------------------------------------
\* Properties of the transport
\* ------------------------------------------------------------------------
\* The lines the task has taken from the child's stdout.
LinesRead == DOMAIN written \ Range(child_stdout)

\* The line that answers call c: a response carrying its id.
Answers(n, c) == written[n].id = c /\ written[n].kind # "invalid"

\* A call that returned a response returned the one of a line that carries
\* its own id: Ok for a result, ServerError for an error.
Correlated ==
    \A c \in DOMAIN calls :
        calls[c].kind \in {"Ok", "ServerError"} =>
            /\ calls[c].line \in DOMAIN written
            /\ Answers(calls[c].line, c)
            /\ calls[c].kind = "Ok" <=> written[calls[c].line].kind = "result"

\* A call whose answer the task has read has returned.
AnsweredCallsReturn ==
    \A c \in DOMAIN calls :
        (\E n \in LinesRead : Answers(n, c)) => calls[c].state = "returned"

\* The slot of a call that has returned is gone.
SlotsLive == \A c \in rpc_pending : c \in DOMAIN calls /\ calls[c].state = "waiting"

\* What a call has returned is never replaced.
ResolvedOnce ==
    \A c \in DOMAIN calls :
        calls[c].state = "returned" => calls'[c] = calls[c]

\* The task takes a line from the child's stdout.
ReadsLine == child_stdout # <<>> /\ child_stdout' = Tail(child_stdout)

\* A line that is no response, or a response without a live slot, changes
\* no slot, completes no call and leaves the task running.
DropsLine ==
    (/\ ReadsLine
     /\ \/ written[Head(child_stdout)].kind = "invalid"
        \/ written[Head(child_stdout)].id \notin rpc_pending)
        => /\ rpc_pending' = rpc_pending
           /\ calls' = calls
           /\ task' = task

\* C27: whatever calls are in flight and in whatever order the child
\* answers, each call completes with the response line that carries its id
\* and with no other; a slot is resolved at most once and removed when it is
\* resolved; a response without a live slot and a line that is no response
\* change no slot and do not stop the transport.
C27_Correlation ==
    /\ [](Correlated /\ AnsweredCallsReturn /\ SlotsLive)
    /\ [][ResolvedOnce /\ DropsLine]_vars

\* The calls made after the task stopped.
MadeAfterStop == {c \in DOMAIN calls : c >= at_stop.request_id}

\* After the task has stopped every call has returned: the ones that were
\* outstanding and the ones made afterwards with Disconnected.
StoppedState ==
    task = "stopped" =>
        /\ \A c \in DOMAIN calls : calls[c].state = "returned"
        /\ \A c \in at_stop.outstanding \cup MadeAfterStop :
               calls[c].kind = "Disconnected"

\* C28: after a write error on the child's stdin, or a read error or the
\* end of its stdout, the transport stays stopped, every call that was
\* outstanding has returned Disconnected, every later call returns
\* Disconnected, and no call is left waiting.
C28_Disconnected ==
    /\ [](StoppedState)
    /\ [][task = "stopped" => task' = "stopped"]_vars

\* A write error stopped the task while one call was in `pending` and
\* another in the channel, and a call was made afterwards.
C28_Witness ==
    /\ task = "stopped"
    /\ rpc_event.op = "write_error"
    /\ Cardinality(at_stop.outstanding) = 2
    /\ rpc_event.id \in at_stop.outstanding
    /\ child_stdin # {}
    /\ MadeAfterStop # {}
\* ------------------------------------------------------------------------
\* Executor::run on workflows with clock, bridge and wait steps
\* ------------------------------------------------------------------------
\* The time of the `clock/set` steps, the `ms` of the `wait/ms` steps and
\* the `timeout` they declare.
SetTime == 1

WaitMs == 2

WaitTimeout == 1

\* The workflows of DispatchSpec: one job of two main steps without `if`
\* and with continue_on_error; a function call or a clock/set in the
\* `before` list of the workflow and the `after` list of the job; the
\* platform nodejs set at the workflow level, at the job level or at none;
\* the bridges of nodejs and rust configured.
DispatchWorkflows ==
    LET Plain(uses, platform, id, timeout, param, reads) ==
            Step(uses, platform, id, timeout, FALSE, TRUE, param, reads)
        MainSteps ==
            {Plain(<<"clock", "set">>, NoPlatform, NoId, NoTimeout, SetTime, NoRef),
             Plain(<<"clock", "set">>, "nodejs", NoId, NoTimeout, SetTime, NoRef),
             Plain(<<"clock", "reset">>, NoPlatform, NoId, NoTimeout, 0, NoRef),
             Plain(<<"node", "call">>, NoPlatform, "s1", NoTimeout, 0, NoRef),
             Plain(<<"rs", "call">>, NoPlatform, NoId, NoTimeout, 0,
                   [id |-> "s1", name |-> <<"result">>]),
             Plain(<<"web", "get">>, NoPlatform, "s1", NoTimeout, 0, NoRef),
             Plain(<<"node", "call">>, NoPlatform, NoId, NoTimeout, 0,
                   [id |-> "s1", name |-> <<"body", "id">>]),
             Plain(<<"wait", "ms">>, NoPlatform, NoId, WaitTimeout, WaitMs, NoRef),
             Plain(<<"fail", "now">>, NoPlatform, NoId, NoTimeout, 0, NoRef)}
        ClockHook ==
            Plain(<<"clock", "set">>, NoPlatform, NoId, NoTimeout, SetTime, NoRef)
        CallHook ==
            Plain(<<"node", "call">>, NoPlatform, NoId, NoTimeout, 0, NoRef)
    IN {[jobs |-> [j \in {1} |->
                      [needs |-> <<>>, continue_on_error |-> FALSE,
                       platform |-> levels[2], before |-> <<CallHook>>,
                       steps |-> steps, after |-> <<job_after>>]],
         before |-> <<before>>, after |-> <<CallHook>>,
         platform |-> levels[1], platforms |-> {"nodejs", "rust"}]
        : steps \in [1..2 -> MainSteps],
          before \in {ClockHook, CallHook},
          job_after \in {ClockHook, CallHook},
          levels \in {<<NoPlatform, NoPlatform>>, <<"nodejs", NoPlatform>>,
                      <<NoPlatform, "nodejs">>}}

\* run(w) begins on an Executor whose clock has been given auto_advance
\* through clock().set_auto_advance (executor.rs 105-107, mock_clock.rs
\* 192-195).
DispatchInit ==
    /\ DirectoryIdle
    /\ RpcIdle
    /\ DispatchIdle
    /\ WebIdle
    /\ wf \in DispatchWorkflows
    /\ exec_pc = "before"
    /\ hook_idx = 1
    /\ job_order = <<>>
    /\ job_idx = 1
    /\ job_results = <<>>
    /\ all_success = TRUE
    /\ job_call = NoJobCall
    /\ run_result = NoRunResult
    /\ before_status = "ok"
    /\ after_run = 0
    /\ after_status = "ok"
    /\ executed = {}
    /\ processed = <<>>
    /\ \E auto_advance \in BOOLEAN :
          clock = [MockClockNew EXCEPT !.auto_advance = auto_advance]
    /\ wall = 0
    /\ clock_op = NoClockOp

DispatchSpec == DispatchInit /\ [][ExecNext]_vars
\* ------------------------------------------------------------------------
\* Properties of the step dispatch
\* ------------------------------------------------------------------------
\* The main step the loop of execute_job stands at.
AtMainStep == exec_pc = "job" /\ job_call.phase = "steps"

CurrentStep == CurrentJob.steps[job_call.step_idx]

\* What handling the current main step can leave.
CurrentPass ==
    DispatchStep(CurrentStep, CurrentJob, wf, clock, bridges, steps_out,
                 job_call.browser_id)

\* The expression that names the output `name` of the step `id`.
Reference(id, name) == <<"steps", id, "outputs">> \o name

\* Every stored output can be read by its expression.
Readable ==
    \A id \in StepIds :
        \A name \in steps_out[id] :
            evaluate_single(Reference(id, name), steps_out) = "Ok"

\* A main step that ends with Err stores nothing.
ErrStoresNothing ==
    AtMainStep =>
        \A r \in CurrentPass :
            r.outcome \in {"error", "raise"} => r.steps_out = steps_out

\* C21: every output stored by a main step with an id is readable through
\* steps.ID.outputs.NAME by the steps after it, and a main step that ended
\* with an error stores no outputs.
C21_Outputs == Readable /\ ErrStoresNothing

\* The hook step about to be executed, if any.
AtWorkflowBefore == exec_pc = "before" /\ hook_idx <= Len(wf.before)

AtWorkflowAfter == exec_pc = "after" /\ hook_idx <= Len(wf.after)

AtJobHook == exec_pc = "job" /\ job_call.phase \in {"before", "after"}

AtHook == AtWorkflowBefore \/ AtWorkflowAfter \/ AtJobHook

CurrentHook ==
    CASE AtWorkflowBefore -> wf.before[hook_idx]
      [] AtWorkflowAfter -> wf.after[hook_idx]
      [] job_call.phase = "before" -> CurrentJob.before[job_call.hook_idx]
      [] OTHER -> CurrentJob.after[job_call.hook_idx]

\* C22: executing a before or after hook step, of the workflow or of a job,
\* whose action is not a clock action leaves the virtual time unchanged.
C22_HooksKeepTime ==
    [][(AtHook /\ parse(CurrentHook.uses).category # "clock")
          => clock'.virtual_time = clock.virtual_time]_vars

\* A function call made by an `after` step of a job while the clock is
\* active with auto-advance.
C22_Witness ==
    /\ step_log.kind = "hook"
    /\ step_log.uses = <<"node", "call">>
    /\ step_log.call.bridge = "nodejs"
    /\ is_active(clock)
    /\ clock.auto_advance
    /\ exec_pc = "job"
    /\ job_call.phase = "return"

\* The step of the main loop that has just been dispatched: its result was
\* pushed to step_results.
Pushed == Len(job_call'.step_results) = Len(job_call.step_results) + 1

LastResult(call) == call.step_results[Len(call.step_results)]

\* C23: after the dispatch of a main step, succeeded or failed, the virtual
\* time advances by the step duration (with auto-advance) and the new sync
\* state is sent to the bridges if and only if the clock the dispatch left
\* is active; a sync that fails on a bridge leaves the step's result as the
\* dispatch returned it.
C23_AutoAdvance ==
    [][(AtMainStep /\ Pushed) =>
          LET left == step_log'.clock
          IN /\ LastResult(job_call').success = step_log'.succeeded
             /\ IF is_active(left)
                THEN /\ clock' = [left EXCEPT !.virtual_time =
                                      IF left.auto_advance
                                      THEN @ + left.step_duration ELSE @]
                     /\ left.step_duration = DEFAULT_STEP_DURATION
                     /\ \A b \in RpcPlatforms :
                            bridges'[b] =
                                IF step_log'.bridges[b].up /\ b \notin step_log'.sync_failed
                                THEN [up |-> TRUE, sync |-> Synced(clock')]
                                ELSE step_log'.bridges[b]
                ELSE /\ clock' = left
                     /\ bridges' = step_log'.bridges]_vars

\* A function call that succeeded while the clock was active with
\* auto-advance, followed by a sync that failed on one bridge and reached
\* another.
C23_Witness ==
    /\ step_log.kind = "step"
    /\ step_log.succeeded
    /\ step_log.call.bridge # NoPlatform
    /\ is_active(step_log.clock)
    /\ clock.auto_advance
    /\ clock.virtual_time = step_log.clock.virtual_time + DEFAULT_STEP_DURATION
    /\ step_log.sync_failed # {}
    /\ \E b \in RpcPlatforms : bridges[b].up /\ bridges[b].sync = Synced(clock)
    /\ job_call.step_results # <<>>
    /\ LastResult(job_call).success

\* The last step invoked a function on a bridge while a virtual time was
\* set.
CalledUnderVirtualTime ==
    /\ step_log.call.bridge # NoPlatform
    /\ step_log.call.current.virtual_time_ms # NoTime

\* C26: once a clock/set step has set a virtual time, a bridge on which a
\* function is invoked has received, before the invocation, a sync state
\* with the current virtual time, also when it was spawned after the
\* clock/set.
C26_SyncBeforeInvocation ==
    CalledUnderVirtualTime =>
        /\ step_log.call.held.received
        /\ step_log.call.held.virtual_time_ms = step_log.call.current.virtual_time_ms

\* The same for the bridges that were up when the time was last changed
\* and on which no sync has failed: a call on a bridge that holds a sync
\* state.
SyncedCall ==
    /\ CalledUnderVirtualTime
    /\ step_log.call.held = step_log.call.current

\* The platform-agnostic categories other than assert.
AgnosticCategories == {"wait", "fail", "clock", "bash"}

\* The last step handled has a platform-agnostic category.
AgnosticStep ==
    /\ step_log.kind \in {"step", "hook"}
    /\ parse(step_log.uses).category \in AgnosticCategories

\* C29: a step of a platform-agnostic category is never failed with
\* PlatformMismatch, whatever platform is resolved for it, and when it
\* succeeds it has performed the built-in action of its category.
C29_AgnosticEverywhere ==
    AgnosticStep =>
        /\ ~step_log.mismatch
        /\ step_log.succeeded =>
               step_log.performed = parse(step_log.uses).category

\* A wait step dispatched on the nodejs platform performs the built-in
\* wait.
AgnosticOnPlatform ==
    /\ AgnosticStep
    /\ step_log.platform = "nodejs"
    /\ step_log.performed = "wait"
    /\ step_log.succeeded

\* C30: the dispatch of a step that declares a timeout keeps the job
\* waiting for at most the timeout, and when it needs longer the step is a
\* failed step.
C30_Timeout ==
    (step_log.kind = "step" /\ step_log.timeout # NoTimeout) =>
        /\ step_log.slept <= step_log.timeout
        /\ (step_log.performed = "wait" /\ WaitMs > step_log.timeout) =>
               ~step_log.succeeded
\* ------------------------------------------------------------------------
\* The HTTP bridge's retry loop (bridge/web.rs)
\* ------------------------------------------------------------------------

\* The largest max_attempts of a retry configuration.
MaxAttempts == 3

\* The WebConfig.retry values: None, or a WebRetryConfig with the default
\* delays (platform.rs 369-379) and some retry_on_status.
RetryConfigs ==
    {NoRetry} \cup
    {[configured |-> TRUE, max_attempts |-> n, initial_delay |-> 1000,
      max_delay |-> 10000, retry_on_status |-> codes] :
        n \in 0..MaxAttempts, codes \in {{}, {429}, {429, 503}}}

\* The `method` strings given to execute_with_retry.
Methods == {"GET", "post", "BREW"}

\* What request.send() can give: a response with a status, whose body can be
\* read or not (response.text()), or a reqwest error that is a connect error,
\* a timeout, or something else.
Replies ==
    {[kind |-> "response", status |-> status, body |-> body] :
        status \in {200, 404, 429, 503}, body \in BOOLEAN}
    \cup {[kind |-> kind, status |-> 0, body |-> FALSE] :
            kind \in {"connect", "timeout", "error"}}

should_retry_before_last(retry, status, attempt) ==
    /\ retry.configured
    /\ attempt + 1 < retry.max_attempts
    /\ status \in retry.retry_on_status

should_retry_any_status(retry, status, attempt) ==
    /\ retry.configured
    /\ attempt < retry.max_attempts

\* WebBridge::should_retry (web.rs 111-118).
should_retry(retry, status, attempt) ==
    /\ retry.configured
    /\ attempt < retry.max_attempts
    /\ status \in retry.retry_on_status

\* WebBridge::get_retry_delay (web.rs 120-128).
get_retry_delay(retry, attempt) ==
    IF retry.configured
    THEN LET saturating_sub == IF attempt >= 1 THEN attempt - 1 ELSE 0
             delay == retry.initial_delay * (2 ^ saturating_sub)
         IN  IF delay <= retry.max_delay THEN delay ELSE retry.max_delay
    ELSE 1000

\* The `max_attempts` of execute_with_retry (web.rs 139-144).
max_attempts_of(retry) ==
    IF retry.configured THEN retry.max_attempts ELSE 1

\* execute_with_retry returns (web.rs 165-170, 214-219, 228, 233).
WebReturn(h, kind, error, status) ==
    [h EXCEPT !.pc = "done",
              !.ret = [kind |-> kind, error |-> error, status |-> status]]

\* The match on request.send() (web.rs 186-231).
Receive(h, reply) ==
    LET asked == [h EXCEPT !.requests = @ + 1, !.reply = reply]
        ServerError == [kind |-> "ServerError", status |-> 0]
    IN  CASE reply.kind = "response" ->
                IF should_retry(h.retry, reply.status, h.attempt)
                THEN [asked EXCEPT !.last_error = [kind |-> "HttpError",
                                                  status |-> reply.status],
                                  !.attempt = @ + 1]
                ELSE IF reply.body
                     THEN WebReturn(asked, "Ok", "none", reply.status)
                     ELSE WebReturn(asked, "Err", "ServerError", 0)
          [] reply.kind \in {"connect", "timeout"} ->
                [asked EXCEPT !.last_error = ServerError, !.attempt = @ + 1]
          [] OTHER ->
                WebReturn([asked EXCEPT !.last_error = ServerError],
                          "Err", "ServerError", 0)

\* execute_with_retry is entered (web.rs 130-146).
WebCall ==
    /\ http.pc = "idle"
    /\ \E method \in Methods :
          http' = [http EXCEPT !.pc = "loop", !.method = method]
    /\ UNCHANGED <<dagVars, runVars, runnerVars, clockVars, rpcVars,
                   dispatchVars>>

\* One iteration of `for attempt in 0..max_attempts` (web.rs 148-231).
WebAttempt ==
    /\ http.pc = "loop"
    /\ http.attempt < max_attempts_of(http.retry)
    /\ LET to_uppercase == IF http.method = "post" THEN "POST"
                           ELSE http.method
           slept == IF http.attempt > 0
                    THEN [http EXCEPT
                            !.slept = get_retry_delay(http.retry,
                                                      http.attempt)]
                    ELSE http
       IN  IF to_uppercase \in {"GET", "POST", "PUT", "PATCH", "DELETE",
                                "HEAD"}
           THEN \E reply \in Replies : http' = Receive(slept, reply)
           ELSE http' = WebReturn(slept, "Err", "UnsupportedAction", 0)
    /\ UNCHANGED <<dagVars, runVars, runnerVars, clockVars, rpcVars,
                   dispatchVars>>

\* The loop ran out of attempts (web.rs 233).
WebExhausted ==
    /\ http.pc = "loop"
    /\ http.attempt >= max_attempts_of(http.retry)
    /\ http' = IF http.last_error.kind = "none"
               THEN WebReturn(http, "Err", "ServerError", 0)
               ELSE WebReturn(http, "Err", http.last_error.kind,
                              http.last_error.status)
    /\ UNCHANGED <<dagVars, runVars, runnerVars, clockVars, rpcVars,
                   dispatchVars>>

WebInit ==
    /\ DirectoryIdle
    /\ ClockIdle
    /\ RpcIdle
    /\ DispatchIdle
    /\ wf = [jobs |-> <<>>, before |-> <<>>, after |-> <<>>,
             platform |-> NoPlatform, platforms |-> {}]
    /\ exec_pc = "idle"
    /\ hook_idx = 1
    /\ job_order = <<>>
    /\ job_idx = 1
    /\ job_results = <<>>
    /\ all_success = TRUE
    /\ job_call = NoJobCall
    /\ run_result = NoRunResult
    /\ before_status = "ok"
    /\ after_run = 0
    /\ after_status = "ok"
    /\ executed = {}
    /\ processed = <<>>
    /\ \E retry \in RetryConfigs : http = WebBridgeNew(retry)

WebNext ==
    \/ WebCall
    \/ WebAttempt
    \/ WebExhausted

WebSpec == WebInit /\ [][WebNext]_vars

\* The last reply was one after which the loop goes on: a response whose
\* status is in retry_on_status, or a connect or timeout error.
Retryable ==
    \/ /\ http.reply.kind = "response"
       /\ http.retry.configured
       /\ http.reply.status \in http.retry.retry_on_status
    \/ http.reply.kind \in {"connect", "timeout"}

C40_NoRetryWitness ==
    /\ http.pc = "done"
    /\ ~http.retry.configured
    /\ http.reply.status = 503
    /\ http.ret.kind = "Ok"
\* ------------------------------------------------------------------------
\* The browser of a job (executor.rs 456-457, 519-528, 610-613)
\* ------------------------------------------------------------------------

\* The workflows of BrowserSpec: a job of three main steps, each a browser
\* action, a browser action with an `if` and continue_on_error, a function
\* call on nodejs or the failing action fail/now, with or without an `after`
\* hook; then a job of one browser action; a function call in the `before`
\* and `after` lists of the workflow and the `before` list of each job. The
\* bridge of nodejs is configured.
BrowserWorkflows ==
    LET Shape(uses, condition, continue_on_error) ==
            Step(uses, NoPlatform, NoId, NoTimeout, condition,
                 continue_on_error, 0, NoRef)
        BrowserSteps ==
            {Shape(<<"page", "goto">>, FALSE, FALSE),
             Shape(<<"page", "click">>, TRUE, TRUE),
             Shape(<<"node", "call">>, FALSE, FALSE),
             Shape(<<"fail", "now">>, FALSE, FALSE)}
        CallHook == Shape(<<"node", "call">>, FALSE, FALSE)
        Job(steps, after) ==
            [needs |-> <<>>, continue_on_error |-> FALSE,
             platform |-> NoPlatform, before |-> <<CallHook>>,
             steps |-> steps, after |-> after]
    IN {[jobs |-> <<Job(steps, after),
                    Job(<<Shape(<<"page", "goto">>, FALSE, FALSE)>>, <<>>)>>,
         before |-> <<CallHook>>, after |-> <<CallHook>>,
         platform |-> NoPlatform, platforms |-> {"nodejs"}]
        : steps \in [1..3 -> BrowserSteps], after \in {<<>>, <<CallHook>>}}

\* run(w) begins on a new Executor.
BrowserInit ==
    /\ DirectoryIdle
    /\ ClockIdle
    /\ RpcIdle
    /\ DispatchIdle
    /\ WebIdle
    /\ wf \in BrowserWorkflows
    /\ exec_pc = "before"
    /\ hook_idx = 1
    /\ job_order = <<>>
    /\ job_idx = 1
    /\ job_results = <<>>
    /\ all_success = TRUE
    /\ job_call = NoJobCall
    /\ run_result = NoRunResult
    /\ before_status = "ok"
    /\ after_run = 0
    /\ after_status = "ok"
    /\ executed = {}
    /\ processed = <<>>

BrowserSpec == BrowserInit /\ [][ExecNext]_vars

\* execute_job has ended and its result has not been recorded yet.
JobEnded == exec_pc = "job" /\ job_call.phase = "return"

\* Every pass of the current main step that reaches the dispatch on the
\* browser platform uses browser and page 1, launched in this pass exactly
\* when the job had no browser yet.
UsesTheJobsBrowser ==
    AtMainStep =>
        \A r \in CurrentPass :
            (r.log.platform = "playwright" /\ r.outcome \notin {"raise", "skip"})
                => /\ r.log.page_id = 1
                   /\ r.log.launched <=> (job_call.browser_id = 0)

\* C32: within one job the browser is launched at most once, at the first
\* step resolved to the browser platform; every later browser step of the
\* job uses the same browser and page; and a job in which a browser was
\* launched has called browser_close when it ends, whatever ended it.
C32_Browser ==
    /\ job_call.launches <= 1
    /\ step_log.launched => step_log.platform = "playwright"
    /\ UsesTheJobsBrowser
    /\ (JobEnded /\ job_call.launches > 0) => job_call.closed

\* The launches and the use of the browser alone.
C32_LaunchedOnce ==
    /\ job_call.launches <= 1
    /\ step_log.launched => step_log.platform = "playwright"
    /\ UsesTheJobsBrowser

\* A job that launched a browser ended after a step returned success =
\* false, and closed the browser.
C32_ClosedAfterFailure ==
    /\ JobEnded
    /\ job_call.launches = 1
    /\ job_call.stopped
    /\ job_call.ret = "Ok"
    /\ ~job_call.success
    /\ job_call.closed

\* A job that launched a browser ended through an Err of a later step, and
\* did not close the browser.
C32_LeftOpen ==
    /\ JobEnded
    /\ job_call.launches = 1
    /\ job_call.ret = "Err"
    /\ ~step_log.launched
    /\ ~job_call.closed
\* ------------------------------------------------------------------------
\* Properties of run_dag: decisions, termination, errors
\* ------------------------------------------------------------------------

\* The number of times `name` occurs in the skipped list.
TimesSkipped(name) == Cardinality({i \in DOMAIN skipped : skipped[i] = name})

\* The passes that hold `name` in their to_run or to_skip list.
Deciders(name) ==
    {p \in DOMAIN passes :
        name \in Range(passes[p].to_run) \cup Range(passes[p].to_skip)}

C33_State ==
    /\ \A n \in workflow_names :
          /\ sent[n] <= 1
          /\ TimesSkipped(n) <= 1
          /\ Cardinality(Deciders(n)) <= 1
          /\ TimesSkipped(n) = 1 =>
                (workers[n].pc = "none" /\ n \notin DOMAIN results)
          /\ n \in pending =>
                /\ workers[n].pc = "none"
                /\ TimesSkipped(n) = 0
                /\ sent[n] = 0
          /\ sent[n] = 1 => (TimesSkipped(n) = 1 \/ n \in DOMAIN results)
    /\ main_pc = "done" =>
          /\ DOMAIN dir_result.workflows \cap Range(dir_result.skipped) = {}
          /\ DOMAIN dir_result.workflows \cup Range(dir_result.skipped)
                = workflow_names
          /\ \A n \in workflow_names : sent[n] = 1

C33_Step ==
    \A n \in workflow_names :
        /\ (workers'[n].pc = "acquire" /\ workers[n].pc # "acquire")
              => workers[n].pc = "none"
        /\ executor'[n] # executor[n] => executor[n] = 0
        /\ sent'[n] # sent[n] => sent[n] = 0
        /\ n \in pending' => n \in pending

\* C33: in every run of run_dag each workflow is decided exactly once: it
\* is executed by exactly one Executor or put in `skipped` once, never both
\* and never twice, and sends exactly one completion signal; at the end the
\* keys of the result map and the entries of `skipped` are disjoint and
\* together are the workflows of the DAG.
C33_DecidedOnce == [][C33_Step]_vars /\ []C33_State

\* A run has ended in which two dispatch passes each decided something and
\* workflows were both executed and skipped.
C33_Witness ==
    /\ main_pc = "done"
    /\ Cardinality(DOMAIN dir_result.workflows) >= 2
    /\ dir_result.skipped # <<>>
    /\ Cardinality({p \in DOMAIN passes : passes[p].pc = "done"}) >= 2
\* Every DAG, fail_fast value and max_concurrent of Init; the runtime keeps
\* running every task that can take a step, and every Executor run
\* terminates.
TerminationSpec == Init /\ [][Next]_vars /\ WF_vars(Next)

\* run_dag has returned and nothing of it is left: every completion was
\* received, no dispatch pass and no worker task is under way, every permit
\* is back and `pending` is empty.
Quiescent ==
    /\ main_pc = "done"
    /\ completed_count = total_workflows
    /\ InFlight = 0
    /\ pending = {}
    /\ \A p \in DOMAIN passes : passes[p].pc \in {"idle", "done"}
    /\ \A n \in workflow_names : workers[n].pc \in {"none", "done"}
    /\ permits = max_concurrent

\* C34: for every non-empty acyclic DAG, every max_concurrent >= 1 and
\* fail_fast on or off, under every interleaving in which every task that
\* can run does run, run_dag terminates: the completion count reaches the
\* number of workflows, no pass or worker is left waiting on a lock, the
\* semaphore or the channel, and no workflow stays in `pending`.
C34_Terminates == <>[]Quiescent

\* A run with one permit and three workflows has ended with nothing left.
C34_Witness ==
    /\ Quiescent
    /\ max_concurrent = 1
    /\ total_workflows = MaxWorkflows
    /\ Cardinality(DOMAIN results) = MaxWorkflows
\* w was removed from pending as Ready: a pass holds it in to_run, or its
\* worker task exists.
RemovedAsReady(w) == ClassifiedRun(w) \/ workers[w].pc # "none"

C36_Step ==
    \A w \in workflow_names :
        /\ RemovedAsReady(w) =>
              /\ RemovedAsReady(w)'
              /\ ~ClassifiedSkip(w)'
              /\ w \notin Range(skipped')
        /\ (ClassifiedSkip(w)' /\ ~ClassifiedSkip(w)) =>
              (w \in pending /\ ~RemovedAsReady(w))
        /\ (workers[w].pc = "acquire" /\ permits > 0) => ENABLED WorkerStart(w)

C36_State ==
    \A w \in workflow_names :
        /\ (w \notin pending /\ ~ClassifiedSkip(w) /\ w \notin Range(skipped))
              => RemovedAsReady(w)
        /\ (main_pc = "done" /\ RemovedAsReady(w)) =>
              (workers[w].pc = "done" /\ w \in DOMAIN dir_result.workflows)

\* C36: under fail_fast a workflow that a dispatch pass removed from
\* `pending` as Ready before the failed flag was set still executes and
\* records a result after the failure, also when it had no permit yet when
\* the failure happened; only workflows still in `pending` when a later
\* pass examines them are skipped.
C36_ReadyStillRuns == [][C36_Step]_vars /\ []C36_State

\* With fail_fast and one permit, a workflow without always=true got its
\* Executor after a workflow of the same pass had failed, and has a result.
C36_Witness ==
    /\ fail_fast
    /\ max_concurrent = 1
    /\ main_pc = "done"
    /\ \E f, w \in workflow_names :
          /\ executor[f] # 0
          /\ executor[f] < executor[w]
          /\ ~dir_result.workflows[f].success
          /\ ~nodes[w].always
          /\ DepsOf(w) = {}
          /\ w \in DOMAIN dir_result.workflows
\* The workflows whose executor.run has returned Err.
Errored == {n \in workflow_names : Finished(n) /\ workers[n].result = "error"}

\* The result map with every result of an Err replaced by the result of a
\* workflow that ran and failed.
AsFailures(res) ==
    [n \in DOMAIN res |->
        IF res[n].jobs_empty THEN [success |-> FALSE, jobs_empty |-> FALSE]
        ELSE res[n]]

\* C38: when executor.run returns Err, run_dag records for the workflow a
\* result with success=false and no jobs and sets the failed flag; a
\* dispatch pass decides every workflow as it would had the workflow run
\* and failed (skipping of dependents, fail_fast); and run_dag returns a
\* DirectoryResult with success=false.
C38_RunError ==
    /\ \A n \in Errored :
          /\ failed
          /\ n \in DOMAIN results =>
                results[n] = [success |-> FALSE, jobs_empty |-> TRUE]
          /\ workers[n].pc \in {"send", "done"} => n \in DOMAIN results
    /\ \A w \in workflow_names :
          Classify(w, nodes, results, Range(skipped), fail_fast, failed)
             = Classify(w, nodes, AsFailures(results), Range(skipped),
                        fail_fast, failed)
    /\ (main_pc = "done" /\ Errored # {}) =>
          /\ ~dir_result.success
          /\ \A n \in Errored :
                /\ dir_result.workflows[n] = [success |-> FALSE, jobs_empty |-> TRUE]
                /\ \A w \in workflow_names :
                      (n \in DepsOf(w) /\ ~nodes[w].always)
                          => w \in Range(dir_result.skipped)

\* run_dag has returned after the only failure was an Err of executor.run:
\* with fail_fast a workflow that does not depend on it, and whose
\* dependencies all succeeded, was skipped.
C38_Witness ==
    /\ main_pc = "done"
    /\ fail_fast
    /\ Cardinality(Errored) = 1
    /\ \A n \in DOMAIN dir_result.workflows :
          n \in Errored \/ dir_result.workflows[n].success
    /\ \E n \in Errored, w \in workflow_names :
          /\ n \notin DepsOf(w)
          /\ w \in Range(dir_result.skipped)
          /\ \A d \in DepsOf(w) : d \in DOMAIN dir_result.workflows
\* ------------------------------------------------------------------------
\* Responses read while requests arrive (rpc.rs 120-157)
\* ------------------------------------------------------------------------

\* The response line at the head of the child's output answers a call whose
\* slot is live.
HeadAnswersLiveCall ==
    /\ child_stdout # <<>>
    /\ written[Head(child_stdout)].kind # "invalid"
    /\ written[Head(child_stdout)].id \in rpc_pending

\* C35: with several calls in flight, whenever the task takes from the
\* child's output a response line that the child wrote in full and that
\* answers a call still waiting, that call completes with that response,
\* whatever requests were received while the line was being read: no response
\* line is lost, truncated or merged with another.
C35_NoLineLost ==
    [][(ReadsLine /\ HeadAnswersLiveCall) =>
          LET n == Head(child_stdout)
              id == written[n].id
          IN /\ calls'[id].state = "returned"
             /\ calls'[id].line = n
             /\ calls'[id].kind = ResponseResult(written[n])]_vars

\* A response was read whole and completed its call while another call was
\* in flight.
C35_ReadWhole ==
    /\ rpc_event.op = "resolved"
    /\ calls[rpc_event.id].state = "returned"
    /\ calls[rpc_event.id].line = rpc_event.line
    /\ rpc_pending # {}
    /\ task = "running"

\* The rest of a response line whose beginning was lost was dropped: the
\* call it answers is still waiting and the child's output is empty.
C35_LineLost ==
    /\ rpc_event.op = "dropped"
    /\ written[rpc_event.line].kind # "invalid"
    /\ rpc_event.id \in rpc_pending
    /\ calls[rpc_event.id].state = "waiting"
    /\ child_stdout = <<>>
    /\ task = "running"
\* ------------------------------------------------------------------------
\* A job that needs a job skipped by its `if` (executor.rs 360-386)
\* ------------------------------------------------------------------------

\* Job j needs a job that the loop skipped because its `if` was false.
NeedsSkippedJob(j) == Needs(j) \cap SkippedByIf # {}

C37_Step ==
    (/\ exec_pc = "jobs"
     /\ NeedsSkippedJob(job_order[job_idx])
     /\ ~wf.jobs[job_order[job_idx]].continue_on_error)
        => /\ job_results' = Insert(job_results, job_order[job_idx],
                                    [success |-> FALSE, steps |-> <<>>])
           /\ all_success' = FALSE
           /\ executed' = executed
           /\ exec_pc' # "job"

C37_State ==
    /\ \A j \in SkippedByIf : j \notin DOMAIN job_results
    /\ \A j \in DOMAIN wf.jobs :
          (NeedsSkippedJob(j) /\ ~wf.jobs[j].continue_on_error) =>
              /\ j \notin executed
              /\ j \in DOMAIN job_results =>
                    /\ job_results[j] = [success |-> FALSE, steps |-> <<>>]
                    /\ ~all_success
              /\ (exec_pc = "done" /\ run_result.kind = "Ok"
                  /\ j \in DOMAIN run_result.jobs) => ~run_result.success

\* C37: a job that needs a job skipped because its `if` was false (which
\* has no recorded result) is treated as having a failed dependency: unless
\* it sets continue_on_error it is recorded with success = false and no
\* steps, without being executed, and the workflow's success becomes false.
C37_SkippedNeed == [](C37_State) /\ [][C37_Step]_vars

\* A run returned success = false although no job was executed and failed:
\* the only failure is a job recorded because a job it needs was skipped by
\* its `if`.
C37_Witness ==
    /\ exec_pc = "done"
    /\ run_result.kind = "Ok"
    /\ ~run_result.success
    /\ \A j \in executed : j \in DOMAIN run_result.jobs /\ run_result.jobs[j].success
    /\ \E j \in DOMAIN run_result.jobs :
          /\ j \notin executed
          /\ NeedsSkippedJob(j)
          /\ \A d \in Needs(j) : d \in SkippedByIf \/ d \in executed
\* ------------------------------------------------------------------------
\* The timezone of the clock steps (executor.rs 1000-1022)
\* ------------------------------------------------------------------------

\* The workflows of TimezoneSpec: one job of two main steps, each a
\* clock/timezone with a timezone string (or none), a clock/set with or
\* without the parameter `timezone`, or a function call on nodejs; a
\* function call in every `before` and `after` list. The bridge of nodejs
\* is configured.
TimezoneWorkflows ==
    LET Plain(uses, param) ==
            Step(uses, NoPlatform, NoId, NoTimeout, FALSE, TRUE, param, NoRef)
        In(step, timezone) == [step EXCEPT !.timezone = timezone]
        CallHook == Plain(<<"node", "call">>, 0)
        MainSteps ==
            {In(Plain(<<"clock", "timezone">>, 0), timezone) :
                timezone \in {"+01:00", "EST", "UTC", "Mars", NoTimezone}}
            \cup {In(Plain(<<"clock", "set">>, SetTime), timezone) :
                     timezone \in {"+01:00", "EST", "Mars", NoTimezone}}
            \cup {CallHook}
    IN {[jobs |-> [j \in {1} |->
                      [needs |-> <<>>, continue_on_error |-> FALSE,
                       platform |-> NoPlatform, before |-> <<CallHook>>,
                       steps |-> steps, after |-> <<CallHook>>]],
         before |-> <<CallHook>>, after |-> <<CallHook>>,
         platform |-> NoPlatform, platforms |-> {"nodejs"}]
        : steps \in [1..2 -> MainSteps]}

\* run(w) begins on a new Executor.
TimezoneInit ==
    /\ DirectoryIdle
    /\ ClockIdle
    /\ RpcIdle
    /\ DispatchIdle
    /\ WebIdle
    /\ wf \in TimezoneWorkflows
    /\ exec_pc = "before"
    /\ hook_idx = 1
    /\ job_order = <<>>
    /\ job_idx = 1
    /\ job_results = <<>>
    /\ all_success = TRUE
    /\ job_call = NoJobCall
    /\ run_result = NoRunResult
    /\ before_status = "ok"
    /\ after_run = 0
    /\ after_status = "ok"
    /\ executed = {}
    /\ processed = <<>>

TimezoneSpec == TimezoneInit /\ [][ExecNext]_vars

\* The current main step is a clock/timezone, or a clock/set with the
\* parameter `timezone`.
AtTimezoneStep ==
    /\ AtMainStep
    /\ CurrentStep.uses \in {<<"clock", "timezone">>, <<"clock", "set">>}
    /\ CurrentStep.timezone # NoTimezone

\* C39: after a clock/timezone step, or a clock/set step with a `timezone`
\* parameter, that succeeded, the clock's timezone offset and the
\* timezone_offset_secs of the sync state sent to the bridges equal the
\* offset from UTC in seconds of the timezone string (3600 for +01:00,
\* -18000 for EST, 0 for UTC).
C39_TimezoneOffset ==
    AtTimezoneStep =>
        \A r \in CurrentPass :
            r.log.succeeded =>
                /\ r.clock.timezone_offset_secs
                      = parse_timezone(CurrentStep.timezone).offset_secs
                /\ Synced(r.log.clock).timezone_offset_secs
                      = parse_timezone(CurrentStep.timezone).offset_secs

\* After a step with the timezone +01:00 the clock and the sync state held
\* by the nodejs child have the offset 3600 * 3600.
C39_Scaled ==
    /\ step_log.kind = "step"
    /\ step_log.succeeded
    /\ step_log.uses[1] = "clock"
    /\ clock.timezone_offset_secs = 3600 * 3600
    /\ bridges["nodejs"].up
    /\ bridges["nodejs"].sync.timezone_offset_secs = 3600 * 3600

\* After a clock/timezone step with UTC the offset is 0.
C39_Utc ==
    /\ step_log.kind = "step"
    /\ step_log.succeeded
    /\ step_log.uses = <<"clock", "timezone">>
    /\ clock.timezone_offset_secs = 0
    /\ job_call.step_idx = 2
    /\ wf.jobs[1].steps[1].timezone = "UTC"

====
